---- MODULE Spec2Model ----
(***************************************************************************)
(* Model of the book-notes-app workers: the metadata worker (AmazonScraper *)
(* in workers/metadata-worker/src/index.ts) and the book finder worker     *)
(* (BookFinder in workers/book-finder/src/index.ts), the emoji worker, and *)
(* the front end's book form (components/BookForm.jsx) with the markdown   *)
(* generator (utils/generateMarkdown.js).                                  *)
(*                                                                         *)
(* JavaScript strings on which the code does character-level work (URLs,   *)
(* hrefs, element texts) are sequences of one-character strings, so that   *)
(* includes / startsWith / split / trim / match are computed, not assumed. *)
(* Values the code only compares for equality or passes along (store       *)
(* names, queries, error messages) are TLA+ strings.                       *)
(***************************************************************************)
EXTENDS Integers, Sequences, FiniteSets, TLC

VARIABLES
    request,         \* the HTTP request being handled
    pc,              \* position of the handler
    browser,         \* the browser session: "none", "open", "closed"
    page,            \* the document, as far as the page queries have read it
    storePreference, \* BookFinder: store || "amazon"
    bookLinks,       \* BookFinder: links returned by page.evaluate
    asin, title, author, productDetails, description, \* AmazonScraper locals
    pending,         \* completion of the try block, held while finally runs
    outcome,         \* completion of scrapeAmazonProduct / findBookWithGoogleSearch
    response,        \* the HTTP response
    state,           \* BookFinder agent state (this.state)
    trace,           \* calls made on the browser and page, in order
    formData,        \* BookForm: the form fields
    isLoading, loadingMessage, error,  \* BookForm: useState values
    metadataFetched, fetchedMetadata,  \* BookForm: the cached metadata
    markdownContent, \* what setMarkdownContent last received
    fpc,             \* position of BookForm.handleSubmit
    submitted,       \* handleSubmit: the formData of the render it was created in
    metadata,        \* handleSubmit: let metadata
    foundUrl,        \* handleSubmit: const amazonUrl
    settled          \* other requests the BookFinder agent has settled meanwhile

scraperLocals == <<asin, title, author, productDetails, description>>
finderLocals == <<storePreference, bookLinks>>
formVars == <<formData, isLoading, loadingMessage, error, metadataFetched,
              fetchedMetadata, markdownContent, fpc, submitted, metadata, foundUrl>>
vars == <<request, pc, browser, page, storePreference, bookLinks,
          asin, title, author, productDetails, description,
          pending, outcome, response, state, trace, settled, formVars>>

(***************************************************************************)
(* String literals of the program.                                         *)
(***************************************************************************)
HTTP == <<"h", "t", "t", "p">>
AMAZON_COM == <<"a", "m", "a", "z", "o", "n", ".", "c", "o", "m">>
BARNESANDNOBLE_COM == <<"b", "a", "r", "n", "e", "s", "a", "n", "d", "n", "o", "b", "l", "e", ".", "c", "o", "m">>
BOOKS_GOOGLE_COM == <<"b", "o", "o", "k", "s", ".", "g", "o", "o", "g", "l", "e", ".", "c", "o", "m">>
GOODREADS_COM == <<"g", "o", "o", "d", "r", "e", "a", "d", "s", ".", "c", "o", "m">>
BOOKSHOP_ORG == <<"b", "o", "o", "k", "s", "h", "o", "p", ".", "o", "r", "g">>
ACLK == <<"/", "a", "c", "l", "k", "?">>
URLQ == <<"/", "u", "r", "l", "?">>
DP == <<"/", "d", "p", "/">>
GP_PRODUCT == <<"/", "g", "p", "/", "p", "r", "o", "d", "u", "c", "t", "/">>
SLASH == <<"/">>
PUBLICATION_DATE == <<"P", "u", "b", "l", "i", "c", "a", "t", "i", "o", "n", " ", "d", "a", "t", "e">>
PUBLISHER == <<"P", "u", "b", "l", "i", "s", "h", "e", "r">>
PRINT_LENGTH == <<"P", "r", "i", "n", "t", " ", "l", "e", "n", "g", "t", "h">>
PAGES == <<"p", "a", "g", "e", "s">>
PAGE_LENGTH == <<"P", "a", "g", "e", " ", "l", "e", "n", "g", "t", "h">>
NOT_FOUND == <<"N", "o", "t", " ", "f", "o", "u", "n", "d">>

(***************************************************************************)
(* String.prototype operations used by the code.                           *)
(***************************************************************************)
\* s.includes(p)
Includes(s, p) ==
    \E i \in 1..(Len(s) - Len(p) + 1) : SubSeq(s, i, i + Len(p) - 1) = p

\* s.startsWith(p)
StartsWith(s, p) ==
    Len(s) >= Len(p) /\ SubSeq(s, 1, Len(p)) = p

\* s.indexOf(p), 1-based; 0 when p does not occur
IndexOf(s, p) ==
    IF Includes(s, p)
    THEN CHOOSE i \in 1..(Len(s) - Len(p) + 1) :
            /\ SubSeq(s, i, i + Len(p) - 1) = p
            /\ \A j \in 1..(i - 1) : SubSeq(s, j, j + Len(p) - 1) # p
    ELSE 0

\* s.split(sep): the pieces of s between successive occurrences of sep
RECURSIVE Split(_, _)
Split(s, sep) ==
    LET i == IndexOf(s, sep)
    IN IF i = 0 THEN <<s>>
       ELSE <<SubSeq(s, 1, i - 1)>> \o Split(SubSeq(s, i + Len(sep), Len(s)), sep)

(***************************************************************************)
(* Bounds and inputs of the book finder.                                   *)
(***************************************************************************)
MaxAnchors == 2

HrefAmazon == <<"h", "t", "t", "p", "s", ":", "/", "/", "a", "m", "a", "z", "o", "n", ".", "c", "o", "m", "/", "d", "p", "/", "B", "0", "8">>
HrefBarnes == <<"h", "t", "t", "p", "s", ":", "/", "/", "b", "a", "r", "n", "e", "s", "a", "n", "d", "n", "o", "b", "l", "e", ".", "c", "o", "m", "/", "w">>
HrefGoogleBooks == <<"h", "t", "t", "p", ":", "/", "/", "b", "o", "o", "k", "s", ".", "g", "o", "o", "g", "l", "e", ".", "c", "o", "m", "/", "b">>
HrefGoodreads == <<"h", "t", "t", "p", "s", ":", "/", "/", "g", "o", "o", "d", "r", "e", "a", "d", "s", ".", "c", "o", "m", "/", "b">>
HrefBookshop == <<"h", "t", "t", "p", "s", ":", "/", "/", "b", "o", "o", "k", "s", "h", "o", "p", ".", "o", "r", "g", "/", "b">>
HrefRedirect == <<"h", "t", "t", "p", "s", ":", "/", "/", "g", ".", "c", "o", "/", "u", "r", "l", "?", "q", "=", "a", "m", "a", "z", "o", "n", ".", "c", "o", "m">>
HrefAd == <<"h", "t", "t", "p", "s", ":", "/", "/", "a", "m", "a", "z", "o", "n", ".", "c", "o", "m", "/", "a", "c", "l", "k", "?", "s", "a", "=", "l">>
HrefQueryOnly == <<"h", "t", "t", "p", "s", ":", "/", "/", "g", ".", "c", "o", "/", "s", "?", "q", "=", "a", "m", "a", "z", "o", "n", ".", "c", "o", "m">>
HrefTwoStores == <<"h", "t", "t", "p", "s", ":", "/", "/", "g", "o", "o", "d", "r", "e", "a", "d", "s", ".", "c", "o", "m", "/", "a", "m", "a", "z", "o", "n", ".", "c", "o", "m">>
HrefRelative == <<"/", "s", "e", "a", "r", "c", "h", "?", "q", "=", "a", "m", "a", "z", "o", "n", ".", "c", "o", "m">>
HrefNoScheme == <<"h", "t", "t", "p", "d", "o", "c", "s", "/", "a", "m", "a", "z", "o", "n", ".", "c", "o", "m", "/", "b">>
HrefOther == <<"h", "t", "t", "p", "s", ":", "/", "/", "e", "x", "a", "m", "p", "l", "e", ".", "o", "r", "g", "/", "b">>

Hrefs == {HrefAmazon, HrefBarnes, HrefGoogleBooks, HrefGoodreads, HrefBookshop,
          HrefRedirect, HrefAd, HrefQueryOnly, HrefTwoStores, HrefRelative,
          HrefNoScheme, HrefOther}

\* The <a> elements under #search: an element has an href attribute or none,
\* and a textContent.
Anchors == {[href |-> h, textContent |-> "t"] : h \in Hrefs} \cup {[textContent |-> "t"]}

SeqsUpTo(S, n) == UNION {[1..k -> S] : k \in 0..n}

\* What querySelectorAll('#search a') can find: the anchors under #search in
\* document order (none when #search is missing).
SearchAnchors == SeqsUpTo(Anchors, MaxAnchors)

\* /search requests and the other requests the finder answers at once
SearchRequests ==
    {[worker |-> "finder", method |-> "GET", pathname |-> "/search", query |-> "dune", store |-> s] :
        s \in {"amazon", "barnesnoble", "any", "goodreads", ""}}
    \cup {[worker |-> "finder", method |-> "GET", pathname |-> "/search", query |-> "dune"],
          [worker |-> "finder", method |-> "GET", pathname |-> "/search", query |-> "", store |-> "amazon"],
          [worker |-> "finder", method |-> "GET", pathname |-> "/search", store |-> "amazon"],
          [worker |-> "finder", method |-> "OPTIONS", pathname |-> "/search", query |-> "dune"],
          [worker |-> "finder", method |-> "GET", pathname |-> "/"],
          [worker |-> "finder", method |-> "GET", pathname |-> "/other"]}

\* url.searchParams.get(name): the value, or null (here: no such field)
HasParam(req, name) == name \in DOMAIN req

(***************************************************************************)
(* BookFinder.findBookWithGoogleSearch: the callback of page.evaluate.     *)
(***************************************************************************)
\* the if / else-if chain that determines the store type from the URL
StoreTypeOf(href) ==
    IF Includes(href, AMAZON_COM) THEN "amazon"
    ELSE IF Includes(href, BARNESANDNOBLE_COM) THEN "barnesnoble"
    ELSE IF Includes(href, BOOKS_GOOGLE_COM) THEN "google"
    ELSE IF Includes(href, GOODREADS_COM) THEN "goodreads"
    ELSE IF Includes(href, BOOKSHOP_ORG) THEN "bookshop"
    ELSE "unknown"

\* if (!href || !href.startsWith('http')) continue;
HrefRejected(element) ==
    \/ ~HasParam(element, "href")
    \/ element.href = <<>>
    \/ ~StartsWith(element.href, HTTP)

\* IsAdLink with a plausible bug: only the redirect marker is looked for
IsRedirectLink(href) == Includes(href, URLQ)

\* if (href.includes('/aclk?') || href.includes('/url?')) continue;
IsAdLink(href) ==
    Includes(href, ACLK) \/ Includes(href, URLQ)

\* PushLink with a plausible bug: links.unshift(...) instead of links.push(...)
UnshiftLink(links, link) == <<link>> \o links

\* links.push({url, title, storeType})
PushLink(links, link) == Append(links, link)

\* the for loop over resultElements, from the element at the head on
RECURSIVE ClassifyFrom(_, _)
ClassifyFrom(resultElements, links) ==
    IF resultElements = <<>> THEN links
    ELSE LET element == Head(resultElements)
             rest == Tail(resultElements)
         IN IF HrefRejected(element) THEN ClassifyFrom(rest, links)
            ELSE IF StoreTypeOf(element.href) = "unknown" THEN ClassifyFrom(rest, links)
            ELSE IF IsAdLink(element.href) THEN ClassifyFrom(rest, links)
            ELSE ClassifyFrom(rest,
                    PushLink(links, [url |-> element.href,
                                     title |-> element.textContent,
                                     storeType |-> StoreTypeOf(element.href)]))

\* the whole callback: const links = []; for (...) {...}; return links;
ClassifyLinks(resultElements) == ClassifyFrom(resultElements, <<>>)

\* SelectBestMatch with a plausible bug: the preference is ignored
SelectFirstLink(links, preference) == links[1]

\* lines 387-399: filter by store preference, fall back to every link, take [0]
SelectBestMatch(links, preference) ==
    LET preferred == SelectSeq(links, LAMBDA link : link.storeType = preference)
        filteredLinks == IF preference # "any"
                         THEN (IF Len(preferred) = 0 THEN links ELSE preferred)
                         ELSE links
    IN filteredLinks[1]

(***************************************************************************)
(* Completions of a function body: nothing yet, a returned value, or a     *)
(* thrown Error with its message.                                          *)
(***************************************************************************)
NoCompletion == [kind |-> "none"]
Return(v) == [kind |-> "return", value |-> v]
Throw(m) == [kind |-> "throw", message |-> m]

NoResponse == [status |-> 0]
NoPage == [loaded |-> FALSE]
LoadedPage == [loaded |-> TRUE]

\* the document with the elements one query found in it
WithElements(p, part, elements) ==
    [k \in (DOMAIN p) \cup {part} |-> IF k = part THEN elements ELSE p[k]]

\* catch (error) { throw new Error(`Failed to search for book: ${error.message}`) }
WrapSearchError(c) ==
    IF c.kind = "throw" THEN Throw("Failed to search for book: " \o c.message) ELSE c

\* SetStateField with a plausible bug: setState({[field]: value}) without the
\* spread of currentState, so that the other fields of the state are dropped
SetStateFieldOnly(currentState, field, value) ==
    [k \in {field} |-> value]

\* the agent state with one field replaced: setState({...currentState, [field]: value})
SetStateField(currentState, field, value) ==
    [k \in (DOMAIN currentState) \cup {field} |-> IF k = field THEN value ELSE currentState[k]]

\* currentState.recentSearches || [] and currentState.errors || []
StateList(currentState, field) ==
    IF field \in DOMAIN currentState THEN currentState[field] ELSE <<>>

\* Array.prototype.slice(0, n)
Slice0(list, n) == SubSeq(list, 1, IF Len(list) < n THEN Len(list) ELSE n)

RecentKept == 9
ErrorsKept == 19

(***************************************************************************)
(* The book form (components/BookForm.jsx): the values of useState.        *)
(***************************************************************************)
\* useState of formData; dateFinished is the day the form is opened
InitialFormData ==
    [title |-> "",
     dateStarted |-> "",
     dateFinished |-> "2025-03-09",
     placesRead |-> [predefined |-> <<>>, custom |-> ""],
     format |-> "Kindle",
     frontmatterDescription |-> "",
     whyReadIt |-> "",
     notes |-> ""]

\* the component after its first render; null is the empty sequence
FormInitial ==
    /\ formData = InitialFormData
    /\ isLoading = FALSE
    /\ error = <<>>
    /\ loadingMessage = ""
    /\ metadataFetched = FALSE
    /\ fetchedMetadata = <<>>
    /\ markdownContent = <<>>
    /\ fpc = "idle"
    /\ submitted = InitialFormData
    /\ metadata = <<>>
    /\ foundUrl = <<>>

(***************************************************************************)
(* Initial state: no request received, no browser session, empty agent     *)
(* state, the book form as first rendered.                                 *)
(***************************************************************************)
Init ==
    /\ request = [worker |-> "none"]
    /\ pc = "idle"
    /\ browser = "none"
    /\ page = NoPage
    /\ storePreference = ""
    /\ bookLinks = <<>>
    /\ asin = <<>>
    /\ title = <<>>
    /\ author = <<>>
    /\ productDetails = <<>>
    /\ description = <<>>
    /\ pending = NoCompletion
    /\ outcome = NoCompletion
    /\ response = NoResponse
    /\ state = <<>>
    /\ trace = <<>>
    /\ settled = 0
    /\ FormInitial

\* a step of the try block rejects: control goes to the finally block
FailTo(finallyPc, message) ==
    /\ pending' = Throw(message)
    /\ pc' = finallyPc

(***************************************************************************)
(* BookFinder.fetch, up to the call of findBookWithGoogleSearch (and the   *)
(* default export's fetch, which answers OPTIONS and passes the rest on).  *)
(***************************************************************************)
FinderReceive ==
    /\ pc = "idle"
    /\ \E req \in SearchRequests :
        /\ request' = req
        /\ IF req.method = "OPTIONS"
           THEN /\ response' = [status |-> 204]
                /\ pc' = "done"
                /\ UNCHANGED storePreference
           ELSE IF req.pathname = "/"
           THEN /\ response' = [status |-> 200, html |-> TRUE]
                /\ pc' = "done"
                /\ UNCHANGED storePreference
           ELSE IF req.pathname = "/search"
           THEN IF ~HasParam(req, "query") \/ req.query = ""
                THEN /\ response' = [status |-> 400, error |-> "Query parameter is required"]
                     /\ pc' = "done"
                     /\ UNCHANGED storePreference
                ELSE /\ storePreference' = IF HasParam(req, "store") /\ req.store # ""
                                           THEN req.store ELSE "amazon"
                     /\ pc' = "fb_launch"
                     /\ UNCHANGED response
           ELSE /\ response' = [status |-> 404]
                /\ pc' = "done"
                /\ UNCHANGED storePreference
    /\ UNCHANGED <<formVars, settled, browser, page, bookLinks, scraperLocals, pending,
                   outcome, state, trace>>

(***************************************************************************)
(* BookFinder.findBookWithGoogleSearch, one action per await.              *)
(***************************************************************************)
\* const browser = await puppeteer.launch(this.env.BROWSER): outside the inner
\* try, so a rejection goes straight to the outer catch
FinderLaunch ==
    /\ pc = "fb_launch"
    /\ \/ /\ browser' = "open"
          /\ trace' = Append(trace, "launch")
          /\ pc' = "fb_newPage"
          /\ UNCHANGED outcome
       \/ /\ outcome' = WrapSearchError(Throw("launch failed"))
          /\ pc' = "fb_returned"
          /\ UNCHANGED <<browser, trace>>
    /\ UNCHANGED <<formVars, settled, request, page, finderLocals, scraperLocals, pending,
                   response, state>>

FinderNewPage ==
    /\ pc = "fb_newPage"
    /\ \/ /\ trace' = Append(trace, "newPage")
          /\ pc' = "fb_setUserAgent"
          /\ UNCHANGED pending
       \/ /\ FailTo("fb_finally", "newPage failed")
          /\ UNCHANGED trace
    /\ UNCHANGED <<formVars, settled, request, browser, page, finderLocals, scraperLocals,
                   outcome, response, state>>

FinderSetUserAgent ==
    /\ pc = "fb_setUserAgent"
    /\ \/ /\ trace' = Append(trace, "setUserAgent")
          /\ pc' = "fb_goto"
          /\ UNCHANGED pending
       \/ /\ FailTo("fb_finally", "setUserAgent failed")
          /\ UNCHANGED trace
    /\ UNCHANGED <<formVars, settled, request, browser, page, finderLocals, scraperLocals,
                   outcome, response, state>>

\* await page.goto(googleSearchUrl, {timeout: 20000}): loads the results page,
\* or rejects (unreachable, timeout)
FinderGoto ==
    /\ pc = "fb_goto"
    /\ \/ /\ page' = LoadedPage
          /\ trace' = Append(trace, "goto")
          /\ pc' = "fb_waitForTimeout"
          /\ UNCHANGED pending
       \/ /\ FailTo("fb_finally", "goto failed")
          /\ UNCHANGED <<page, trace>>
    /\ UNCHANGED <<formVars, settled, request, browser, finderLocals, scraperLocals,
                   outcome, response, state>>

FinderWaitForTimeout ==
    /\ pc = "fb_waitForTimeout"
    /\ \/ /\ trace' = Append(trace, "waitForTimeout")
          /\ pc' = "fb_waitForSelector"
          /\ UNCHANGED pending
       \/ /\ FailTo("fb_finally", "waitForTimeout failed")
          /\ UNCHANGED trace
    /\ UNCHANGED <<formVars, settled, request, browser, page, finderLocals, scraperLocals,
                   outcome, response, state>>

\* await page.waitForSelector('#search', {timeout: 15000}).catch(() => null):
\* a rejection (the timeout) is swallowed, the function goes on either way
FinderWaitForSelector ==
    /\ pc = "fb_waitForSelector"
    /\ \/ trace' = Append(trace, "waitForSelector")
       \/ trace' = Append(trace, "waitForSelector rejected")
    /\ pc' = "fb_evaluate"
    /\ UNCHANGED <<formVars, settled, request, browser, page, finderLocals, scraperLocals,
                   pending, outcome, response, state>>

\* FinderSelect with a plausible bug: an empty list yields a placeholder link
FinderSelectPlaceholder(links, preference) ==
    IF Len(links) = 0
    THEN Return([url |-> <<>>, title |-> "", storeType |-> "unknown"])
    ELSE Return(SelectBestMatch(links, preference))

\* what lines 381-402 complete with, given the links page.evaluate returned
FinderSelect(links, preference) ==
    IF Len(links) = 0
    THEN Throw("No book links found in search results")
    ELSE Return(SelectBestMatch(links, preference))

\* const bookLinks = await page.evaluate(...) over the anchors the document
\* holds at that moment, then lines 381-402, which run without a further await
FinderEvaluate ==
    /\ pc = "fb_evaluate"
    /\ \/ /\ \E anchors \in SearchAnchors :
                /\ page' = WithElements(page, "anchors", anchors)
                /\ bookLinks' = ClassifyLinks(anchors)
          /\ trace' = Append(trace, "evaluate")
          /\ pending' = FinderSelect(bookLinks', storePreference)
          /\ pc' = "fb_finally"
       \/ /\ FailTo("fb_finally", "evaluate failed")
          /\ UNCHANGED <<page, bookLinks, trace>>
    /\ UNCHANGED <<formVars, settled, request, browser, storePreference, scraperLocals,
                   outcome, response, state>>

\* FinderClose with a plausible bug: the browser is closed only when the try
\* block completed normally
FinderCloseOnSuccessOnly ==
    /\ pc = "fb_finally"
    /\ IF pending.kind = "return"
       THEN /\ browser' = "closed"
            /\ trace' = Append(trace, "close")
       ELSE UNCHANGED <<browser, trace>>
    /\ outcome' = WrapSearchError(pending)
    /\ pc' = "fb_returned"
    /\ UNCHANGED <<formVars, settled, request, page, finderLocals, scraperLocals, pending,
                   response, state>>

\* finally { await browser.close(); } and the outer catch, which wraps whatever
\* was thrown. A rejected close() replaces the completion of the try block, and
\* whether the session survives it is up to the browser service.
FinderClose ==
    /\ pc = "fb_finally"
    /\ \/ /\ browser' = "closed"
          /\ trace' = Append(trace, "close")
          /\ outcome' = WrapSearchError(pending)
       \/ /\ browser' \in {"open", "closed"}
          /\ trace' = trace \o <<"close", "close rejected">>
          /\ outcome' = WrapSearchError(Throw("close failed"))
    /\ pc' = "fb_returned"
    /\ UNCHANGED <<formVars, settled, request, page, finderLocals, scraperLocals, pending,
                   response, state>>

(***************************************************************************)
(* BookFinder.fetch after findBookWithGoogleSearch has settled, and        *)
(* BookFinder.logError.                                                    *)
(***************************************************************************)
\* RecordSearch with a plausible bug: the earlier searches are kept whole, not
\* sliced
RecordSearchUncapped(currentState, query, bookLink) ==
    SetStateField(currentState, "recentSearches",
        <<[query |-> query, bookUrl |-> bookLink.url, storeType |-> bookLink.storeType]>>
            \o StateList(currentState, "recentSearches"))

\* timestamps (new Date().toISOString()) are left out of the entries
RecordSearch(currentState, query, bookLink) ==
    SetStateField(currentState, "recentSearches",
        <<[query |-> query, bookUrl |-> bookLink.url, storeType |-> bookLink.storeType]>>
            \o Slice0(StateList(currentState, "recentSearches"), RecentKept))

logError(currentState, query, errorMessage) ==
    SetStateField(currentState, "errors",
        <<[query |-> query, error |-> errorMessage]>>
            \o Slice0(StateList(currentState, "errors"), ErrorsKept))

\* FinderRespond with a plausible bug: a recent search of the agent for the
\* same query is answered from this.state instead of from the search just made
FinderRespondCached ==
    /\ pc = "fb_returned"
    /\ LET recent == StateList(state, "recentSearches")
           hits == {i \in 1..Len(recent) : recent[i].query = request.query}
       IN IF outcome.kind = "return"
          THEN /\ state' = RecordSearch(state, request.query, outcome.value)
               /\ response' =
                     [status |-> 200, query |-> request.query,
                      bookLink |->
                         IF hits = {} THEN outcome.value
                         ELSE LET hit == recent[CHOOSE i \in hits : \A j \in hits : i <= j]
                              IN [url |-> hit.bookUrl, title |-> outcome.value.title,
                                  storeType |-> hit.storeType]]
          ELSE /\ state' = logError(state, request.query, outcome.message)
               /\ response' = [status |-> 500, error |-> "Failed to find the book",
                               message |-> outcome.message]
    /\ pc' = "done"
    /\ UNCHANGED <<formVars, settled, request, browser, page, finderLocals, scraperLocals,
                   pending, outcome, trace>>

FinderRespond ==
    /\ pc = "fb_returned"
    /\ IF outcome.kind = "return"
       THEN /\ state' = RecordSearch(state, request.query, outcome.value)
            /\ response' = [status |-> 200, query |-> request.query, bookLink |-> outcome.value]
       ELSE /\ state' = logError(state, request.query, outcome.message)
            /\ response' = [status |-> 500, error |-> "Failed to find the book",
                            message |-> outcome.message]
    /\ pc' = "done"
    /\ UNCHANGED <<formVars, settled, request, browser, page, finderLocals, scraperLocals,
                   pending, outcome, trace>>

FinderNext ==
    \/ FinderReceive
    \/ FinderLaunch
    \/ FinderNewPage
    \/ FinderSetUserAgent
    \/ FinderGoto
    \/ FinderWaitForTimeout
    \/ FinderWaitForSelector
    \/ FinderEvaluate
    \/ FinderClose
    \/ FinderRespond

(***************************************************************************)
(* Bounds and inputs of the metadata worker.                               *)
(***************************************************************************)
MaxDetails == 2

UrlDp == <<"h", "t", "t", "p", "s", ":", "/", "/", "a", "m", "a", "z", "o", "n", ".", "c", "o", "m", "/", "d", "p", "/", "B", "0", "8", "/", "r", "e", "f">>
UrlGpProduct == <<"h", "t", "t", "p", "s", ":", "/", "/", "a", "m", "a", "z", "o", "n", ".", "c", "o", "m", "/", "g", "p", "/", "p", "r", "o", "d", "u", "c", "t", "/", "B", "0", "9">>
UrlNoSegment == <<"h", "t", "t", "p", "s", ":", "/", "/", "a", "m", "a", "z", "o", "n", ".", "c", "o", "m", "/", "b">>
UrlDpEmpty == <<"h", "t", "t", "p", "s", ":", "/", "/", "a", "m", "a", "z", "o", "n", ".", "c", "o", "m", "/", "d", "p", "/">>
UrlGpThenDp == <<"h", "t", "t", "p", "s", ":", "/", "/", "a", "m", "a", "z", "o", "n", ".", "c", "o", "m", "/", "g", "p", "/", "p", "r", "o", "d", "u", "c", "t", "/", "B", "0", "9", "/", "d", "p", "/", "B", "0", "8">>
UrlNotAmazon == <<"h", "t", "t", "p", "s", ":", "/", "/", "e", "x", "a", "m", "p", "l", "e", ".", "o", "r", "g", "/", "d", "p", "/", "B", "0", "8">>
UrlAmazonInQuery == <<"h", "t", "t", "p", "s", ":", "/", "/", "e", "x", "a", "m", "p", "l", "e", ".", "o", "r", "g", "/", "d", "p", "/", "B", "0", "8", "?", "q", "=", "a", "m", "a", "z", "o", "n", ".", "c", "o", "m">>
TextB07 == <<"B", "0", "7">>
TextDune == <<" ", "D", "u", "n", "e", " ">>
TextBlank == <<" ", " ">>
TextHerbert == <<"H", "e", "r", "b", "e", "r", "t">>
TextFrank == <<" ", "F", "r", "a", "n", "k">>
TextEpic == <<"E", "p", "i", "c", " ">>
TextDesert == <<"A", " ", "d", "e", "s", "e", "r", "t">>
DetailPublicationDate == <<" ", "P", "u", "b", "l", "i", "c", "a", "t", "i", "o", "n", " ", "d", "a", "t", "e", " ", "2", "0", "2", "0", " ">>
DetailPublisher == <<"P", "u", "b", "l", "i", "s", "h", "e", "r", " ", "A", "c", "e", " ", "1", "9", "9", "9">>
DetailPrintLength == <<"P", "r", "i", "n", "t", " ", "l", "e", "n", "g", "t", "h", " ", "3", "2", "0", " ", "p", "a", "g", "e", "s">>
DetailSample == <<"S", "a", "m", "p", "l", "e", " ", "1", "2", "p", "a", "g", "e", "s">>
DetailPublisherOnly == <<"P", "u", "b", "l", "i", "s", "h", "e", "r", " ", "A", "c", "e">>

ScrapeUrls == {UrlDp, UrlGpProduct, UrlNoSegment, UrlDpEmpty, UrlGpThenDp, UrlNotAmazon,
               UrlAmazonInQuery, <<>>}

\* requests to the metadata worker; browserBinding is env.BROWSER being set
ScrapeRequests ==
    {[worker |-> "metadata", method |-> "GET", pathname |-> "/scrape", url |-> u, browserBinding |-> TRUE] :
        u \in ScrapeUrls}
    \cup {[worker |-> "metadata", method |-> "GET", pathname |-> "/scrape", browserBinding |-> TRUE],
          [worker |-> "metadata", method |-> "GET", pathname |-> "/scrape", url |-> UrlDp, browserBinding |-> FALSE],
          [worker |-> "metadata", method |-> "OPTIONS", pathname |-> "/scrape", url |-> UrlDp, browserBinding |-> TRUE],
          [worker |-> "metadata", method |-> "GET", pathname |-> "/", browserBinding |-> TRUE]}

\* The parts of a product page the scraper queries. Each is the sequence, in
\* document order, of the elements its selector list matches at the moment of
\* the query.
AsinElements == {<<>>,
                 <<[isInput |-> FALSE, value |-> TextB07]>>,
                 <<[isInput |-> TRUE, value |-> TextB07]>>}
TitleElements == {<<>>, <<TextBlank>>, <<TextDune>>}
\* selector: the position, in the selector list of line 255, of the selector
\* the element matches
AuthorElements == {<<>>,
                   <<[selector |-> 1, textContent |-> TextHerbert]>>,
                   <<[selector |-> 3, textContent |-> TextFrank],
                     [selector |-> 1, textContent |-> TextHerbert]>>}
DetailTexts == {DetailPublicationDate, DetailPublisher, DetailPrintLength,
                DetailSample, DetailPublisherOnly}
ExpanderElements == {<<>>, <<TextBlank>>, <<TextEpic>>}
DescElements == {<<>>, <<TextDesert>>}

DetailElements == SeqsUpTo(DetailTexts, MaxDetails)

(***************************************************************************)
(* String helpers of the scraper.                                          *)
(***************************************************************************)
IsSpace(c) == c \in {" ", "\t", "\n", "\r"}
IsDigit(c) == c \in {"0", "1", "2", "3", "4", "5", "6", "7", "8", "9"}

\* String.prototype.trim
RECURSIVE Trim(_)
Trim(s) ==
    IF s = <<>> THEN s
    ELSE IF IsSpace(s[1]) THEN Trim(Tail(s))
    ELSE IF IsSpace(s[Len(s)]) THEN Trim(SubSeq(s, 1, Len(s) - 1))
    ELSE s

\* text.match(/\d{4}/): the first four consecutive digits, <<>> for null
MatchYear(text) ==
    LET starts == {i \in 1..(Len(text) - 3) : \A k \in 0..3 : IsDigit(text[i + k])}
    IN IF starts = {} THEN <<>>
       ELSE LET i == CHOOSE i \in starts : \A j \in starts : i <= j
            IN SubSeq(text, i, i + 3)

\* the end of the match of \d+\s*pages that starts at i, 0 when there is none
PagesMatchEnd(text, i) ==
    LET ends == {e \in i..Len(text) :
                    \E d \in i..(e - 5) :
                        /\ \A k \in i..d : IsDigit(text[k])
                        /\ \A k \in (d + 1)..(e - 5) : IsSpace(text[k])
                        /\ SubSeq(text, e - 4, e) = PAGES}
    IN IF ends = {} THEN 0 ELSE CHOOSE e \in ends : \A f \in ends : f <= e

\* text.match(/\d+\s*pages/): the leftmost match, <<>> for null
MatchPages(text) ==
    LET starts == {i \in 1..Len(text) : PagesMatchEnd(text, i) # 0}
    IN IF starts = {} THEN <<>>
       ELSE LET i == CHOOSE i \in starts : \A j \in starts : i <= j
            IN SubSeq(text, i, PagesMatchEnd(text, i))

\* value || fallback, for a string value
OrElse(value, fallback) == IF value = <<>> THEN fallback ELSE value

\* record[field] || fallback, for a field that may be unset (undefined)
FieldOrElse(record, field, fallback) ==
    IF field \in DOMAIN record THEN OrElse(record[field], fallback) ELSE fallback

(***************************************************************************)
(* AmazonScraper.scrapeAmazonProduct: the extraction of each field.        *)
(***************************************************************************)
\* AsinFromUrl with a plausible bug: the rest of the URL is not cut at '/'
AsinFromUrlUncut(amazonUrl, segment) == Split(amazonUrl, segment)[2]

\* lines 229-232: amazonUrl.split(segment)[1].split('/')[0]
AsinFromUrl(amazonUrl, segment) == Split(Split(amazonUrl, segment)[2], SLASH)[1]

\* lines 235-241: the callback of page.evaluate for '#ASIN'
AsinFromPage(asinElements) ==
    IF asinElements # <<>> /\ asinElements[1].isInput
    THEN asinElements[1].value
    ELSE <<>>

\* lines 246-249: querySelector('#productTitle'), textContent.trim() or ''
ExtractTitle(titleElements) ==
    IF titleElements # <<>> THEN Trim(titleElements[1]) ELSE <<>>

\* lines 253-257: querySelector with a selector list returns the first element
\* of the document that matches any selector of the list
ExtractAuthor(authorElements) ==
    IF authorElements # <<>> THEN Trim(authorElements[1].textContent) ELSE <<>>

\* details[field] = value
SetDetail(details, field, value) ==
    [k \in (DOMAIN details) \cup {field} |-> IF k = field THEN value ELSE details[k]]

\* lines 267-285: the body of the forEach callback for one element
ScanDetail(details, textContent) ==
    LET text == Trim(textContent)
        withYear ==
            IF (Includes(text, PUBLICATION_DATE) \/ Includes(text, PUBLISHER))
               /\ MatchYear(text) # <<>>
            THEN SetDetail(details, "yearPublished", MatchYear(text))
            ELSE details
    IN IF (Includes(text, PRINT_LENGTH) \/ Includes(text, PAGES) \/ Includes(text, PAGE_LENGTH))
          /\ MatchPages(text) # <<>>
       THEN SetDetail(withYear, "pageLength", MatchPages(text))
       ELSE withYear

\* lines 261-288: detailElements.forEach(...) over the elements in document
\* order, starting from details
RECURSIVE ScanDetails(_, _)
ScanDetails(detailElements, details) ==
    IF detailElements = <<>> THEN details
    ELSE ScanDetails(Tail(detailElements), ScanDetail(details, Head(detailElements)))

\* lines 292-307
ExtractDescription(expanderElements, descElements) ==
    IF expanderElements # <<>> THEN Trim(expanderElements[1])
    ELSE IF descElements # <<>> THEN Trim(descElements[1])
    ELSE <<>>

\* ProductData with a plausible bug: the description lacks its || 'Not found'
ProductDataBareDescription(asinValue, titleValue, authorValue, details, descriptionValue, amazonUrl) ==
    [asin |-> OrElse(asinValue, NOT_FOUND),
     title |-> OrElse(titleValue, NOT_FOUND),
     author |-> OrElse(authorValue, NOT_FOUND),
     yearPublished |-> FieldOrElse(details, "yearPublished", NOT_FOUND),
     pageLength |-> FieldOrElse(details, "pageLength", NOT_FOUND),
     description |-> descriptionValue,
     url |-> amazonUrl]

\* ProductData with a plausible bug: the two detail fields lack their
\* || 'Not found', so that an unset one is left out of the JSON record
ProductDataSparse(asinValue, titleValue, authorValue, details, descriptionValue, amazonUrl) ==
    LET keys == {"asin", "title", "author", "description", "url"}
                    \cup ((DOMAIN details) \cap {"yearPublished", "pageLength"})
    IN [k \in keys |->
            CASE k = "asin" -> OrElse(asinValue, NOT_FOUND)
              [] k = "title" -> OrElse(titleValue, NOT_FOUND)
              [] k = "author" -> OrElse(authorValue, NOT_FOUND)
              [] k = "description" -> OrElse(descriptionValue, NOT_FOUND)
              [] k = "url" -> amazonUrl
              [] OTHER -> details[k]]

\* lines 312-320: the record returned
ProductData(asinValue, titleValue, authorValue, details, descriptionValue, amazonUrl) ==
    [asin |-> OrElse(asinValue, NOT_FOUND),
     title |-> OrElse(titleValue, NOT_FOUND),
     author |-> OrElse(authorValue, NOT_FOUND),
     yearPublished |-> FieldOrElse(details, "yearPublished", NOT_FOUND),
     pageLength |-> FieldOrElse(details, "pageLength", NOT_FOUND),
     description |-> OrElse(descriptionValue, NOT_FOUND),
     url |-> amazonUrl]

(***************************************************************************)
(* The metadata worker: default fetch and AmazonScraper.onRequest up to    *)
(* the call of scrapeAmazonProduct.                                        *)
(***************************************************************************)
ScraperReceive ==
    /\ pc = "idle"
    /\ \E req \in ScrapeRequests :
        /\ request' = req
        /\ IF req.method = "OPTIONS"
           THEN response' = [status |-> 204] /\ pc' = "done"
           ELSE IF req.pathname # "/scrape"
           THEN response' = [status |-> 404, error |-> "Not found"] /\ pc' = "done"
           ELSE IF ~req.browserBinding
           THEN response' = [status |-> 500, error |-> "Configuration error"] /\ pc' = "done"
           ELSE IF ~HasParam(req, "url") \/ req.url = <<>>
           THEN response' = [status |-> 400, error |-> "Missing 'url' parameter"] /\ pc' = "done"
           ELSE IF ~Includes(req.url, AMAZON_COM)
           THEN response' = [status |-> 400, error |-> "URL must be from amazon.com domain"]
                /\ pc' = "done"
           ELSE UNCHANGED response /\ pc' = "sc_launch"
    /\ UNCHANGED <<formVars, settled, browser, page, finderLocals, scraperLocals, pending, outcome,
                   state, trace>>

(***************************************************************************)
(* AmazonScraper.scrapeAmazonProduct, one action per await.                *)
(***************************************************************************)
ScraperLaunch ==
    /\ pc = "sc_launch"
    /\ \/ /\ browser' = "open"
          /\ trace' = Append(trace, "launch")
          /\ pc' = "sc_newPage"
          /\ UNCHANGED pending
       \/ /\ FailTo("sc_finally", "launch failed")
          /\ UNCHANGED <<browser, trace>>
    /\ UNCHANGED <<formVars, settled, request, page, finderLocals, scraperLocals, outcome, response, state>>

\* ScraperNewPage with a plausible bug: the page is navigated without the
\* user agent having been set
ScraperNewPageNoUserAgent ==
    /\ pc = "sc_newPage"
    /\ \/ /\ trace' = Append(trace, "newPage")
          /\ pc' = "sc_goto"
          /\ UNCHANGED pending
       \/ /\ FailTo("sc_finally", "newPage failed")
          /\ UNCHANGED trace
    /\ UNCHANGED <<formVars, settled, request, browser, page, finderLocals, scraperLocals, outcome,
                   response, state>>

ScraperNewPage ==
    /\ pc = "sc_newPage"
    /\ \/ /\ trace' = Append(trace, "newPage")
          /\ pc' = "sc_setUserAgent"
          /\ UNCHANGED pending
       \/ /\ FailTo("sc_finally", "newPage failed")
          /\ UNCHANGED trace
    /\ UNCHANGED <<formVars, settled, request, browser, page, finderLocals, scraperLocals, outcome,
                   response, state>>

ScraperSetUserAgent ==
    /\ pc = "sc_setUserAgent"
    /\ \/ /\ trace' = Append(trace, "setUserAgent")
          /\ pc' = "sc_goto"
          /\ UNCHANGED pending
       \/ /\ FailTo("sc_finally", "setUserAgent failed")
          /\ UNCHANGED trace
    /\ UNCHANGED <<formVars, settled, request, browser, page, finderLocals, scraperLocals, outcome,
                   response, state>>

\* ScraperGoto with a plausible bug: a failed navigation is retried with a
\* fresh browser instead of being thrown
ScraperGotoRetry ==
    /\ pc = "sc_goto"
    /\ \/ /\ page' = LoadedPage
          /\ trace' = Append(trace, "goto")
          /\ pc' = "sc_waitForSelector"
       \/ /\ pc' = "sc_launch"
          /\ UNCHANGED <<page, trace>>
    /\ UNCHANGED <<formVars, settled, request, browser, pending, finderLocals, scraperLocals,
                   outcome, response, state>>

\* await page.goto(amazonUrl, {timeout: 30000})
ScraperGoto ==
    /\ pc = "sc_goto"
    /\ \/ /\ page' = LoadedPage
          /\ trace' = Append(trace, "goto")
          /\ pc' = "sc_waitForSelector"
          /\ UNCHANGED pending
       \/ /\ FailTo("sc_finally", "goto failed")
          /\ UNCHANGED <<page, trace>>
    /\ UNCHANGED <<formVars, settled, request, browser, finderLocals, scraperLocals, outcome, response, state>>

\* ScraperWaitForSelector with a plausible bug: the rejection is swallowed, as
\* the book finder does with .catch(() => null)
ScraperWaitForSelectorLenient ==
    /\ pc = "sc_waitForSelector"
    /\ \/ trace' = Append(trace, "waitForSelector")
       \/ trace' = Append(trace, "waitForSelector rejected")
    /\ pc' = "sc_asin"
    /\ UNCHANGED <<formVars, settled, request, browser, page, pending, finderLocals, scraperLocals,
                   outcome, response, state>>

\* await page.waitForSelector('body', {timeout: 10000})
ScraperWaitForSelector ==
    /\ pc = "sc_waitForSelector"
    /\ \/ /\ trace' = Append(trace, "waitForSelector")
          /\ pc' = "sc_asin"
          /\ UNCHANGED pending
       \/ /\ FailTo("sc_finally", "waitForSelector failed")
          /\ UNCHANGED trace
    /\ UNCHANGED <<formVars, settled, request, browser, page, finderLocals, scraperLocals, outcome,
                   response, state>>

\* lines 228-242: the ASIN from the URL, or else from the page
ScraperAsin ==
    /\ pc = "sc_asin"
    /\ IF Includes(request.url, DP)
       THEN /\ asin' = AsinFromUrl(request.url, DP)
            /\ pc' = "sc_title"
            /\ UNCHANGED <<page, pending, trace>>
       ELSE IF Includes(request.url, GP_PRODUCT)
       THEN /\ asin' = AsinFromUrl(request.url, GP_PRODUCT)
            /\ pc' = "sc_title"
            /\ UNCHANGED <<page, pending, trace>>
       ELSE \/ /\ \E elements \in AsinElements :
                    /\ page' = WithElements(page, "asinElements", elements)
                    /\ asin' = AsinFromPage(elements)
               /\ trace' = Append(trace, "evaluate #ASIN")
               /\ pc' = "sc_title"
               /\ UNCHANGED pending
            \/ /\ FailTo("sc_finally", "evaluate failed")
               /\ UNCHANGED <<page, asin, trace>>
    /\ UNCHANGED <<formVars, settled, request, browser, finderLocals, title, author, productDetails,
                   description, outcome, response, state>>

ScraperTitle ==
    /\ pc = "sc_title"
    /\ \/ /\ \E elements \in TitleElements :
                /\ page' = WithElements(page, "titleElements", elements)
                /\ title' = ExtractTitle(elements)
          /\ trace' = Append(trace, "evaluate #productTitle")
          /\ pc' = "sc_author"
          /\ UNCHANGED pending
       \/ /\ FailTo("sc_finally", "evaluate failed")
          /\ UNCHANGED <<page, title, trace>>
    /\ UNCHANGED <<formVars, settled, request, browser, finderLocals, asin, author, productDetails,
                   description, outcome, response, state>>

ScraperAuthor ==
    /\ pc = "sc_author"
    /\ \/ /\ \E elements \in AuthorElements :
                /\ page' = WithElements(page, "authorElements", elements)
                /\ author' = ExtractAuthor(elements)
          /\ trace' = Append(trace, "evaluate author")
          /\ pc' = "sc_details"
          /\ UNCHANGED pending
       \/ /\ FailTo("sc_finally", "evaluate failed")
          /\ UNCHANGED <<page, author, trace>>
    /\ UNCHANGED <<formVars, settled, request, browser, finderLocals, asin, title, productDetails,
                   description, outcome, response, state>>

ScraperDetails ==
    /\ pc = "sc_details"
    /\ \/ /\ \E elements \in DetailElements :
                /\ page' = WithElements(page, "detailElements", elements)
                /\ productDetails' = ScanDetails(elements, <<>>)
          /\ trace' = Append(trace, "evaluate details")
          /\ pc' = "sc_description"
          /\ UNCHANGED pending
       \/ /\ FailTo("sc_finally", "evaluate failed")
          /\ UNCHANGED <<page, productDetails, trace>>
    /\ UNCHANGED <<formVars, settled, request, browser, finderLocals, asin, title, author,
                   description, outcome, response, state>>

\* the last page.evaluate and the return statement that follows it
ScraperDescription ==
    /\ pc = "sc_description"
    /\ \/ /\ \E expander \in ExpanderElements, others \in DescElements :
                /\ page' = WithElements(WithElements(page, "expanderElements", expander),
                                        "descElements", others)
                /\ description' = ExtractDescription(expander, others)
          /\ trace' = Append(trace, "evaluate description")
          /\ pending' = Return(ProductData(asin, title, author, productDetails,
                                           description', request.url))
          /\ pc' = "sc_finally"
       \/ /\ FailTo("sc_finally", "evaluate failed")
          /\ UNCHANGED <<page, description, trace>>
    /\ UNCHANGED <<formVars, settled, request, browser, finderLocals, asin, title, author,
                   productDetails, outcome, response, state>>

\* catch { throw error; } finally { if (browser) { try { await browser.close() }
\* catch (closeError) { log } } }: the completion of the try block stands; a
\* rejected close() is swallowed, and whether the session survives it is up to
\* the browser service
ScraperFinally ==
    /\ pc = "sc_finally"
    /\ IF browser # "none"
       THEN \/ /\ browser' = "closed"
               /\ trace' = Append(trace, "close")
            \/ /\ browser' \in {"open", "closed"}
               /\ trace' = trace \o <<"close", "close rejected">>
       ELSE UNCHANGED <<browser, trace>>
    /\ outcome' = pending
    /\ pc' = "sc_returned"
    /\ UNCHANGED <<formVars, settled, request, page, finderLocals, scraperLocals, pending, response, state>>

\* AmazonScraper.onRequest after scrapeAmazonProduct has settled
ScraperRespond ==
    /\ pc = "sc_returned"
    /\ IF outcome.kind = "return"
       THEN response' = [status |-> 200, productData |-> outcome.value]
       ELSE response' = [status |-> 500, error |-> "Failed to scrape Amazon product data",
                         message |-> outcome.message]
    /\ pc' = "done"
    /\ UNCHANGED <<formVars, settled, request, browser, page, finderLocals, scraperLocals, pending,
                   outcome, state, trace>>

ScraperNext ==
    \/ ScraperReceive
    \/ ScraperLaunch
    \/ ScraperNewPage
    \/ ScraperSetUserAgent
    \/ ScraperGoto
    \/ ScraperWaitForSelector
    \/ ScraperAsin
    \/ ScraperTitle
    \/ ScraperAuthor
    \/ ScraperDetails
    \/ ScraperDescription
    \/ ScraperFinally
    \/ ScraperRespond

(***************************************************************************)
(* The emoji worker: fetch and generateBookEmojis.                         *)
(***************************************************************************)
\* Requests to the emoji worker. A POST carries a JSON body (bodyValid says
\* whether request.json() parses it), a GET carries URL parameters.
EmojiRequests ==
    {[worker |-> "emoji", method |-> m, pathname |-> "/generate-emojis", bodyValid |-> TRUE, description |-> d] :
        m \in {"GET", "POST"}, d \in {"A desert epic", ""}}
    \cup {[worker |-> "emoji", method |-> m, pathname |-> "/generate-emojis", bodyValid |-> TRUE] :
        m \in {"GET", "POST"}}
    \cup {[worker |-> "emoji", method |-> "POST", pathname |-> "/generate-emojis", bodyValid |-> FALSE],
          [worker |-> "emoji", method |-> "OPTIONS", pathname |-> "/generate-emojis", bodyValid |-> TRUE],
          [worker |-> "emoji", method |-> "GET", pathname |-> "/", bodyValid |-> TRUE]}

\* The character class \p{Emoji}: pictographs, and also the digits, # and *
IsEmoji(c) == c \in {"ROCKET", "BOOKS", "STAR"} \/ IsDigit(c) \/ c \in {"#", "*"}

\* Answers of the model, one sequence element per code point
AiTexts == {<<"ROCKET", "BOOKS">>,
            <<" ", "ROCKET", " ", "BOOKS", "STAR">>,
            <<"ROCKET">>,
            <<"n", "o">>,
            <<"2", " ", "ROCKET">>,
            <<>>}

fallbackEmojis == <<<<"BOOKS", "MAGNIFIER">>, <<"BOOK", "SPARKLES">>, <<"BLUEBOOK", "BRAIN">>,
                    <<"REDBOOK", "HEART">>, <<"ORANGEBOOK", "STAR">>, <<"GREENBOOK", "SEEDLING">>>>

\* the pair returned when generateBookEmojis catches an error
DefaultEmojis == <<"BOOKS", "BOOK">>

\* emojis.match(emojiRegex): the matching code points, in order
RECURSIVE EmojiMatches(_)
EmojiMatches(text) ==
    IF text = <<>> THEN <<>>
    ELSE (IF IsEmoji(Head(text)) THEN <<Head(text)>> ELSE <<>>) \o EmojiMatches(Tail(text))

\* generateBookEmojis after the model has answered: the values it can return
EmojisFrom(text) ==
    LET matches == EmojiMatches(text)
    IN  IF Len(matches) >= 2
        THEN {<<matches[1], matches[2]>>}
        ELSE {fallbackEmojis[i] : i \in 1..Len(fallbackEmojis)}

\* fetch up to its first await; a GET reads its parameters at once
EmojiReceive ==
    /\ pc = "idle"
    /\ \E req \in EmojiRequests :
        /\ request' = req
        /\ IF req.method = "OPTIONS"
           THEN /\ response' = [status |-> 204]
                /\ pc' = "done"
           ELSE IF req.pathname # "/generate-emojis"
           THEN /\ response' = [status |-> 200, message |-> "Book Emoji Generator API"]
                /\ pc' = "done"
           ELSE IF req.method = "POST"
           THEN /\ pc' = "em_json"
                /\ UNCHANGED response
           ELSE IF ~HasParam(req, "description") \/ req.description = ""
           THEN /\ response' = [status |-> 400, error |-> "Missing description"]
                /\ pc' = "done"
           ELSE /\ pc' = "em_run"
                /\ UNCHANGED response
    /\ UNCHANGED <<formVars, settled, browser, page, finderLocals, scraperLocals, pending,
                   outcome, state, trace>>

\* EmojiParseBody with a plausible bug: the model is asked before the
\* description is checked
EmojiParseBodyLate ==
    /\ pc = "em_json"
    /\ IF ~request.bodyValid
       THEN /\ response' = [status |-> 500, error |-> "Unexpected end of JSON input"]
            /\ pc' = "done"
            /\ UNCHANGED trace
       ELSE IF ~HasParam(request, "description") \/ request.description = ""
       THEN /\ response' = [status |-> 400, error |-> "Missing description"]
            /\ pc' = "done"
            /\ trace' = Append(trace, "AI.run")
       ELSE /\ pc' = "em_run"
            /\ UNCHANGED <<response, trace>>
    /\ UNCHANGED <<formVars, settled, request, browser, page, finderLocals, scraperLocals,
                   pending, outcome, state>>

\* const data = await request.json(), then the description check
EmojiParseBody ==
    /\ pc = "em_json"
    /\ IF ~request.bodyValid
       THEN /\ response' = [status |-> 500, error |-> "Unexpected end of JSON input"]
            /\ pc' = "done"
       ELSE IF ~HasParam(request, "description") \/ request.description = ""
       THEN /\ response' = [status |-> 400, error |-> "Missing description"]
            /\ pc' = "done"
       ELSE /\ pc' = "em_run"
            /\ UNCHANGED response
    /\ UNCHANGED <<formVars, settled, request, browser, page, finderLocals, scraperLocals,
                   pending, outcome, state, trace>>

\* await generateBookEmojis(...): the call of env.AI.run and what follows it.
\* A rejection, or an answer without a response text, is caught inside
\* generateBookEmojis, which then returns the default pair.
EmojiGenerate ==
    /\ pc = "em_run"
    /\ trace' = Append(trace, "AI.run")
    /\ \/ \E text \in AiTexts : \E emojis \in EmojisFrom(text) :
            response' = [status |-> 200, emojis |-> emojis]
       \/ response' = [status |-> 200, emojis |-> DefaultEmojis]
    /\ pc' = "done"
    /\ UNCHANGED <<formVars, settled, request, browser, page, finderLocals, scraperLocals,
                   pending, outcome, state>>

EmojiNext ==
    \/ EmojiReceive
    \/ EmojiParseBody
    \/ EmojiGenerate

Next == FinderNext \/ ScraperNext \/ EmojiNext

Spec == Init /\ [][Next]_vars

(***************************************************************************)
(* The BookFinder agent among its other requests. Every /search request of *)
(* the worker goes to the one agent instance named "default"; while the    *)
(* request followed above waits on the browser, other requests of that     *)
(* agent settle and update this.state, as BookFinder.fetch does when its   *)
(* search has returned or thrown.                                          *)
(***************************************************************************)
MaxSettled == 1

\* what a search of another request found, and the error of one that failed
OtherLink == [url |-> HrefBarnes, title |-> "t", storeType |-> "barnesnoble"]
OtherError == "Failed to search for book: goto failed"

\* another request of the agent, for the same query, settles: lines 226-241
\* when its search returned, line 256 (logError) when it threw
OtherFetchSettles ==
    /\ settled < MaxSettled
    /\ \/ state' = RecordSearch(state, "dune", OtherLink)
       \/ state' = logError(state, "dune", OtherError)
    /\ settled' = settled + 1
    /\ UNCHANGED <<formVars, request, pc, browser, page, finderLocals, scraperLocals,
                   pending, outcome, response, trace>>

AgentNext == FinderNext \/ OtherFetchSettles

AgentSpec == Init /\ [][AgentNext]_vars

(***************************************************************************)
(* The BookFinder agent late in its life: a /search request handled by an  *)
(* agent whose state is new, or holds the lists that many earlier searches *)
(* have filled.                                                            *)
(***************************************************************************)
\* the agent state after many earlier searches: both lists at their full length
OldSearch == [query |-> "emma", bookUrl |-> HrefGoodreads, storeType |-> "goodreads"]
OldError == [query |-> "emma", error |-> "Failed to search for book: No book links found in search results"]
StateWith(searches, errors) ==
    [recentSearches |-> [i \in 1..searches |-> OldSearch],
     errors |-> [i \in 1..errors |-> OldError]]

\* both lists one entry short of what the slices keep, and one entry more
AlmostFullState == StateWith(RecentKept, ErrorsKept)
FullState == StateWith(RecentKept + 1, ErrorsKept + 1)

AgentStates == {<<>>, AlmostFullState, FullState}

HistoryInit ==
    /\ request = [worker |-> "none"]
    /\ pc = "idle"
    /\ browser = "none"
    /\ page = NoPage
    /\ storePreference = ""
    /\ bookLinks = <<>>
    /\ asin = <<>>
    /\ title = <<>>
    /\ author = <<>>
    /\ productDetails = <<>>
    /\ description = <<>>
    /\ pending = NoCompletion
    /\ outcome = NoCompletion
    /\ response = NoResponse
    /\ state \in AgentStates
    /\ trace = <<>>
    /\ settled = 0
    /\ FormInitial

HistorySpec == HistoryInit /\ [][FinderNext]_vars

(***************************************************************************)
(* The front end (services/bookService.js): findBookUrl asks the book      *)
(* finder with store=amazon and hands the URL of the answer on.            *)
(***************************************************************************)
\* simpleFetch: a response that is not ok throws; otherwise its JSON body
simpleFetch(resp) ==
    IF resp.status < 200 \/ resp.status > 299 THEN Throw("HTTP error")
    ELSE Return([k \in (DOMAIN resp) \ {"status"} |-> resp[k]])

\* findBookUrl, given the response of the book finder to its request
findBookUrl(resp) ==
    LET data == simpleFetch(resp)
    IN IF data.kind = "throw" THEN data
       ELSE IF "error" \in DOMAIN data.value
       THEN Throw("BookFinder API returned error")
       ELSE IF ~HasParam(data.value, "bookLink") \/ data.value.bookLink.url = <<>>
       THEN Throw("BookFinder API returned invalid data structure: missing bookLink.url")
       ELSE Return(data.value.bookLink.url)

\* fetchBookMetadata, given the response of the metadata worker
fetchBookMetadata(resp) ==
    LET data == simpleFetch(resp)
    IN IF data.kind = "throw" THEN data
       ELSE IF "error" \in DOMAIN data.value
       THEN Throw("Amazon Scraper API returned error")
       ELSE data

(***************************************************************************)
(* utils/generateMarkdown.js. The markdown is modelled row by row: a       *)
(* record with one field per interpolated value of the template.           *)
(***************************************************************************)
NotFound == "Not found"
Undefined == "undefined"
ToBeFilled == "[To be filled]"

\* a property of an object, undefined when the object lacks it
Get(object, name) == IF name \in DOMAIN object THEN object[name] ELSE Undefined

Truthy(value) == value \notin {"", Undefined}

\* value || fallback
OrText(value, fallback) == IF Truthy(value) THEN value ELSE fallback

\* {...a, ...b}
Merge(a, b) == [k \in (DOMAIN a) \cup (DOMAIN b) |-> IF k \in DOMAIN b THEN b[k] ELSE a[k]]

\* formatDate(new Date(date), pattern) of date-fns
formatDate(date, pattern) == <<pattern, date>>

\* getRandomBookEmojis: two of the fourteen emojis, here two of the pairs
RandomBookEmojis == {<<"BOOKS", "BOOK">>, <<"MEMO", "GLASSES">>}

\* fetchBookEmojis after its description check, given what its fetch did:
\* a response of the emoji worker, or no response (the fetch rejected)
fetchBookEmojis(resp) ==
    IF resp = <<>> THEN <<>>
    ELSE LET data == simpleFetch(resp[1])
         IN IF data.kind = "throw" \/ "emojis" \notin DOMAIN data.value
            THEN <<>>
            ELSE data.value.emojis

\* generateMarkdown(bookData); random is what getRandomBookEmojis returns
generateMarkdown(bookData, random) ==
    LET asinValue == Get(bookData, "asin")
        apiDescription == Get(bookData, "description")
        hasAsin == Truthy(asinValue) /\ asinValue # NotFound
    IN [emojiPrefix |-> IF "bookEmojis" \in DOMAIN bookData /\ bookData.bookEmojis # <<>>
                        THEN bookData.bookEmojis ELSE random,
        title |-> Get(bookData, "title"),
        author |-> Get(bookData, "author"),
        date |-> formatDate(bookData.dateFinished, "yyyy-MM-dd"),
        description |-> OrText(Get(bookData, "frontmatterDescription"), "TBD"),
        whyReadIt |-> OrText(Get(bookData, "whyReadIt"), ToBeFilled),
        yearPublished |-> OrText(Get(bookData, "yearPublished"), ToBeFilled),
        format |-> Get(bookData, "format"),
        pages |-> OrText(Get(bookData, "pageLength"), ToBeFilled),
        amazon |-> IF hasAsin THEN <<"https://www.amazon.com/dp/", asinValue, "/">> ELSE <<>>,
        asin |-> IF hasAsin THEN asinValue ELSE ToBeFilled,
        summary |-> IF Truthy(apiDescription) /\ apiDescription # NotFound
                    THEN apiDescription ELSE "[Publisher summary to be filled]",
        dateStarted |-> IF Truthy(Get(bookData, "dateStarted"))
                        THEN formatDate(bookData.dateStarted, "MMMM d, yyyy")
                        ELSE <<ToBeFilled>>,
        dateFinished |-> formatDate(bookData.dateFinished, "MMMM d, yyyy"),
        placesRead |-> IF bookData.placesRead = <<>> THEN <<ToBeFilled>> ELSE bookData.placesRead,
        notes |-> OrText(Get(bookData, "notes"), "* [Your notes here]")]

\* generateMarkdownWithMetadata reaches its await of fetchBookEmojis
NeedsEmojis(fetched) ==
    /\ fetched # <<>>
    /\ Get(fetched[1], "description") # NotFound
    /\ Truthy(Get(fetched[1], "description"))

\* CleanMetadata with a plausible bug: yearPublished is passed on as it is
CleanMetadataUncleanYear(data, titleValue, authorValue, bookEmojis) ==
    [title |-> titleValue,
     author |-> authorValue,
     yearPublished |-> Get(data, "yearPublished"),
     pageLength |-> IF Get(data, "pageLength") # NotFound THEN Get(data, "pageLength") ELSE "",
     asin |-> IF Get(data, "asin") # NotFound THEN Get(data, "asin") ELSE "",
     description |-> IF Get(data, "description") # NotFound THEN Get(data, "description") ELSE "",
     bookEmojis |-> bookEmojis]

\* const cleanMetadata
CleanMetadata(data, titleValue, authorValue, bookEmojis) ==
    [title |-> titleValue,
     author |-> authorValue,
     yearPublished |-> IF Get(data, "yearPublished") # NotFound THEN Get(data, "yearPublished") ELSE "",
     pageLength |-> IF Get(data, "pageLength") # NotFound THEN Get(data, "pageLength") ELSE "",
     asin |-> IF Get(data, "asin") # NotFound THEN Get(data, "asin") ELSE "",
     description |-> IF Get(data, "description") # NotFound THEN Get(data, "description") ELSE "",
     bookEmojis |-> bookEmojis]

\* generateMarkdownWithMetadata(formData, metadata), given what fetchBookEmojis
\* returned (null when it was not called). A null metadata makes the try
\* block throw, and the catch returns the basic template.
generateMarkdownWithMetadata(form, fetched, bookEmojis, random) ==
    IF fetched = <<>> THEN generateMarkdown(form, random)
    ELSE LET data == fetched[1]
             titleValue == IF Truthy(Get(data, "title")) /\ data.title # NotFound
                           THEN data.title ELSE Get(form, "title")
             authorValue == IF Truthy(Get(data, "author")) /\ data.author # NotFound
                            THEN data.author ELSE Get(form, "author")
             enrichedData == Merge(form, CleanMetadata(data, titleValue, authorValue, bookEmojis))
         IN generateMarkdown(enrichedData, random)

(***************************************************************************)
(* The book form (components/BookForm.jsx): handleChange and handleSubmit, *)
(* one action per await of handleSubmit. trace holds the form's events.    *)
(***************************************************************************)
Titles == {"dune", "emma"}

MaxSubmits == 2
MaxChanges == 2

\* what the book finder and the metadata worker have for a search input
BookUrl(query) == IF query = "dune" THEN UrlDp ELSE UrlGpProduct

BookRecord(query) ==
    IF query = "dune"
    THEN [asin |-> "B08", title |-> "Dune", author |-> "Frank Herbert", yearPublished |-> "1965",
          pageLength |-> "412", description |-> "A desert epic", url |-> BookUrl(query)]
    ELSE [asin |-> "B09", title |-> "Emma", author |-> "Jane Austen", yearPublished |-> "1815",
          pageLength |-> "474", description |-> "A matchmaker errs", url |-> BookUrl(query)]

MetadataFields == {"asin", "title", "author", "yearPublished", "pageLength", "description"}

\* the records the metadata worker can return for the page of a search input:
\* the scrape leaves none of the fields, any one of them, or all of them
\* unfound, and an unfound field is the sentinel
MetadataFor(query) ==
    {[k \in DOMAIN BookRecord(query) |->
            IF k \in unfound THEN NotFound ELSE BookRecord(query)[k]] :
        unfound \in {{}, MetadataFields} \cup {{field} : field \in MetadataFields}}

\* answers of the book finder to /search?query=...&store=amazon
FinderAnswers(query) ==
    {[status |-> 200, query |-> query,
      bookLink |-> [url |-> BookUrl(query), title |-> "t", storeType |-> "amazon"]],
     [status |-> 500, error |-> "Failed to find the book", message |-> "No book links found"]}

\* answers of the metadata worker to /scrape?url=...
ScraperAnswers(url) ==
    {Merge([status |-> 200], record) : record \in UNION {MetadataFor(t) : t \in {q \in Titles : BookUrl(q) = url}}}
    \cup {[status |-> 500, error |-> "Failed to scrape Amazon product data"]}

\* answers of the emoji worker to POST /generate-emojis
EmojiAnswers ==
    {[status |-> 200, emojis |-> <<"ROCKET", "BOOKS">>],
     [status |-> 500, error |-> "AI binding missing"]}

Occurrences(event) == Cardinality({i \in DOMAIN trace : trace[i] = event})

workerVars == <<request, pc, browser, page, finderLocals, scraperLocals,
                pending, outcome, response, state, settled>>

\* const modifiedFormData, with the combined places:
\* [...predefined, ...(custom ? [custom] : [])].join(', ')
ModifiedFormData(form) ==
    [form EXCEPT !.placesRead =
        @.predefined \o (IF @.custom # "" THEN <<@.custom>> ELSE <<>>)]

\* the events of the inputs: typing a title, ticking a place, typing a custom
\* place, typing notes
ChangeEvents ==
    {[name |-> "title", value |-> t] : t \in Titles}
    \cup {[name |-> "placesRead", value |-> "Lisbon"],
          [name |-> "placesReadCustom", value |-> "Porto"],
          [name |-> "notes", value |-> "A fine read"]}

\* the formData that handleChange sets
Changed(form, e) ==
    IF e.name = "placesRead"
    THEN [form EXCEPT !.placesRead.predefined =
            IF \A i \in DOMAIN @ : @[i] # e.value
            THEN Append(@, e.value)
            ELSE SelectSeq(@, LAMBDA place : place # e.value)]
    ELSE IF e.name = "placesReadCustom"
    THEN [form EXCEPT !.placesRead.custom = e.value]
    ELSE [form EXCEPT ![e.name] = e.value]

\* handleChange with a plausible bug: every field resets the fetched metadata
handleChangeResetsAlways ==
    /\ fpc # "render"
    /\ Occurrences("change title") + Occurrences("change") < MaxChanges
    /\ \E e \in ChangeEvents :
        /\ formData' = Changed(formData, e)
        /\ formData' # formData
        /\ metadataFetched' = FALSE
        /\ fetchedMetadata' = <<>>
        /\ trace' = Append(trace, IF e.name = "title" THEN "change title" ELSE "change")
    /\ UNCHANGED <<isLoading, loadingMessage, error, markdownContent, fpc, submitted,
                   metadata, foundUrl, workerVars>>

\* handleChange. An input fires it only when its value changes, and the run
\* of handleSubmit between an already settled await and its end is not
\* interrupted by an event.
handleChange ==
    /\ fpc # "render"
    /\ Occurrences("change title") + Occurrences("change") < MaxChanges
    /\ \E e \in ChangeEvents :
        /\ formData' = Changed(formData, e)
        /\ formData' # formData
        /\ IF e.name = "title"
           THEN /\ metadataFetched' = FALSE
                /\ fetchedMetadata' = <<>>
                /\ trace' = Append(trace, "change title")
           ELSE /\ UNCHANGED <<metadataFetched, fetchedMetadata>>
                /\ trace' = Append(trace, "change")
    /\ UNCHANGED <<isLoading, loadingMessage, error, markdownContent, fpc, submitted,
                   metadata, foundUrl, workerVars>>

\* Fallback with a plausible bug: the catch sets the error but no markdown
FallbackErrorOnly(message) ==
    /\ error' = <<<<"Failed to fetch book metadata: ", message,
                    ". Generating basic template instead.">>>>
    /\ UNCHANGED markdownContent
    /\ isLoading' = FALSE
    /\ loadingMessage' = ""
    /\ fpc' = "idle"
    /\ trace' = Append(trace, "failed")

\* the outer catch and the finally of handleSubmit
Fallback(message) ==
    /\ error' = <<<<"Failed to fetch book metadata: ", message,
                    ". Generating basic template instead.">>>>
    /\ \E random \in RandomBookEmojis :
        markdownContent' = <<generateMarkdown(ModifiedFormData(submitted), random)>>
    /\ isLoading' = FALSE
    /\ loadingMessage' = ""
    /\ fpc' = "idle"
    /\ trace' = Append(trace, "failed")

\* setLoadingMessage('Generating markdown template...') and the call of
\* generateMarkdownWithMetadata, up to its first await
StartGenerate(fetched, events) ==
    /\ loadingMessage' = "Generating markdown template..."
    /\ IF NeedsEmojis(fetched)
       THEN /\ fpc' = "emojis"
            /\ trace' = Append(events, "fetchBookEmojis")
       ELSE /\ fpc' = "render"
            /\ trace' = events

\* handleSubmit up to its first await. The button is replaced by the spinner
\* while isLoading, and title and dateFinished are required.
handleSubmit ==
    /\ fpc = "idle"
    /\ ~isLoading
    /\ formData.title # "" /\ formData.dateFinished # ""
    /\ Occurrences("submit") < MaxSubmits
    /\ submitted' = formData
    /\ isLoading' = TRUE
    /\ error' = <<>>
    /\ metadata' = fetchedMetadata
    /\ IF ~metadataFetched
       THEN /\ loadingMessage' = "Searching for book on Amazon..."
            /\ fpc' = "find"
            /\ trace' = trace \o <<"submit", "findBookUrl">>
       ELSE StartGenerate(fetchedMetadata, Append(trace, "submit"))
    /\ UNCHANGED <<formData, metadataFetched, fetchedMetadata, markdownContent,
                   foundUrl, workerVars>>

\* await findBookUrl(...) settles
SubmitFindSettles ==
    /\ fpc = "find"
    /\ \E r \in {findBookUrl(resp) : resp \in FinderAnswers(submitted.title)} \cup {Throw("Failed to fetch")} :
        IF r.kind = "return"
        THEN /\ foundUrl' = r.value
             /\ loadingMessage' = "Fetching book metadata from Amazon..."
             /\ fpc' = "fetch"
             /\ trace' = Append(trace, "fetchBookMetadata")
             /\ UNCHANGED <<isLoading, error, markdownContent>>
        ELSE /\ Fallback(r.message)
             /\ UNCHANGED foundUrl
    /\ UNCHANGED <<formData, metadataFetched, fetchedMetadata, submitted, metadata, workerVars>>

\* await fetchBookMetadata(amazonUrl) settles
SubmitFetchSettles ==
    /\ fpc = "fetch"
    /\ \E r \in {fetchBookMetadata(resp) : resp \in ScraperAnswers(foundUrl)} \cup {Throw("Failed to fetch")} :
        IF r.kind = "return"
        THEN /\ metadata' = <<r.value>>
             /\ fetchedMetadata' = <<r.value>>
             /\ metadataFetched' = TRUE
             /\ StartGenerate(<<r.value>>, Append(trace, "fetched"))
             /\ UNCHANGED <<isLoading, error, markdownContent>>
        ELSE /\ Fallback(r.message)
             /\ UNCHANGED <<metadata, fetchedMetadata, metadataFetched>>
    /\ UNCHANGED <<formData, submitted, foundUrl, workerVars>>

\* Rendered with a plausible bug: no finally block
RenderedStillLoading(bookEmojis) ==
    /\ \E random \in RandomBookEmojis :
        markdownContent' = <<generateMarkdownWithMetadata(ModifiedFormData(submitted), metadata,
                                                          bookEmojis, random)>>
    /\ fpc' = "idle"
    /\ trace' = Append(trace, "rendered")
    /\ UNCHANGED <<formData, error, metadataFetched, fetchedMetadata, submitted, metadata,
                   foundUrl, workerVars, isLoading, loadingMessage>>

\* setMarkdownContent(markdown) and the finally of handleSubmit
Rendered(bookEmojis) ==
    /\ \E random \in RandomBookEmojis :
        markdownContent' = <<generateMarkdownWithMetadata(ModifiedFormData(submitted), metadata,
                                                          bookEmojis, random)>>
    /\ isLoading' = FALSE
    /\ loadingMessage' = ""
    /\ fpc' = "idle"
    /\ trace' = Append(trace, "rendered")
    /\ UNCHANGED <<formData, error, metadataFetched, fetchedMetadata, submitted, metadata,
                   foundUrl, workerVars>>

\* await fetchBookEmojis(...) settles inside generateMarkdownWithMetadata
SubmitEmojisSettle ==
    /\ fpc = "emojis"
    /\ \E answer \in {<<resp>> : resp \in EmojiAnswers} \cup {<<>>} :
        Rendered(fetchBookEmojis(answer))

\* await generateMarkdownWithMetadata(...) when it made no request
SubmitRender ==
    /\ fpc = "render"
    /\ Rendered(<<>>)

FormNext ==
    \/ handleChange
    \/ handleSubmit
    \/ SubmitFindSettles
    \/ SubmitFetchSettles
    \/ SubmitEmojisSettle
    \/ SubmitRender

FormSpec == Init /\ [][FormNext]_vars

(***************************************************************************)
(*                            PROPERTIES                                   *)
(***************************************************************************)
InTrace(event) == \E i \in DOMAIN trace : trace[i] = event

\* page.evaluate of the search has returned its links
SearchEvaluated == request.worker = "finder" /\ InTrace("evaluate")

\* an HTTP response that carries a bookLink
HasBookLink(resp) == "bookLink" \in DOMAIN resp

(***************************************************************************)
(* C4: when the classified link list of a search is empty, the search      *)
(* fails with an error (the try block and the function complete by         *)
(* throwing), the /search request is answered with status 500, and the     *)
(* response carries no bookLink.                                           *)
(***************************************************************************)
C4_EmptyListIsError ==
    (SearchEvaluated /\ bookLinks = <<>>) =>
        /\ pc = "fb_finally" => pending.kind = "throw"
        /\ pc = "fb_returned" => outcome.kind = "throw"
        /\ pc = "done" => (response.status = 500 /\ ~HasBookLink(response))

\* a results page with anchors none of which survives, answered with 500
C4_Witness ==
    /\ SearchEvaluated
    /\ pc = "done"
    /\ Len(page.anchors) = MaxAnchors
    /\ bookLinks = <<>>
    /\ response.status = 500

(***************************************************************************)
(* C5: selection policy. For a non-empty classified list the link selected *)
(* is the first entry whose storeType equals storePreference when there is *)
(* one, otherwise the first entry of the list (also for "any"); the        *)
(* selection never completes with an error, and a 200 response carries     *)
(* exactly that link.                                                      *)
(***************************************************************************)
PreferredPositions(links, preference) ==
    {i \in 1..Len(links) : links[i].storeType = preference}

PolicyChoice(links, preference) ==
    LET pos == PreferredPositions(links, preference)
    IN IF pos # {}
       THEN links[CHOOSE i \in pos : \A j \in pos : i <= j]
       ELSE links[1]

C5_SelectionPolicy ==
    (SearchEvaluated /\ bookLinks # <<>>) =>
        /\ pending = Return(PolicyChoice(bookLinks, storePreference))
        /\ (pc = "done" /\ response.status = 200) =>
               response.bookLink = PolicyChoice(bookLinks, storePreference)
        /\ (pc = "done" /\ response.status # 200) =>
               response.message = "Failed to search for book: close failed"

\* the preferred store is missing from a list of two links: the first is returned
C5_Witness ==
    /\ SearchEvaluated
    /\ pc = "done"
    /\ storePreference = "barnesnoble"
    /\ Len(bookLinks) = 2
    /\ PreferredPositions(bookLinks, storePreference) = {}
    /\ bookLinks[1] # bookLinks[2]
    /\ response.status = 200
    /\ response.bookLink = bookLinks[1]

(***************************************************************************)
(* C6: no link whose URL contains "/aclk?" or "/url?" is in the classified *)
(* list or returned as the bookLink, whatever retailer domain the URL      *)
(* contains.                                                               *)
(***************************************************************************)
HasAdMarker(url) ==
    \E i \in 1..Len(url) :
        \/ (i + 5 <= Len(url) /\ <<url[i], url[i+1], url[i+2], url[i+3], url[i+4], url[i+5]>> = ACLK)
        \/ (i + 4 <= Len(url) /\ <<url[i], url[i+1], url[i+2], url[i+3], url[i+4]>> = URLQ)

C6_NoAdLinks ==
    /\ \A i \in 1..Len(bookLinks) : ~HasAdMarker(bookLinks[i].url)
    /\ HasBookLink(response) => ~HasAdMarker(response.bookLink.url)

\* the page holds an ad link on a retailer domain and a redirect link naming
\* one; neither is in the list
C6_Witness ==
    /\ SearchEvaluated
    /\ \E i \in 1..Len(page.anchors) : page.anchors[i] = [href |-> HrefAd, textContent |-> "t"]
    /\ \E i \in 1..Len(page.anchors) : page.anchors[i] = [href |-> HrefAmazon, textContent |-> "t"]
    /\ Len(bookLinks) = 1
    /\ HasBookLink(response)

(***************************************************************************)
(* C7: every link the classifier emits carries the storeType of the first  *)
(* entry of the domain table whose substring occurs in the host+path of    *)
(* the URL (the URL up to its query string or fragment); a link in whose   *)
(* host+path no entry occurs is dropped; no emitted link is "unknown".     *)
(***************************************************************************)
DomainTable ==
    <<[substring |-> AMAZON_COM, storeType |-> "amazon"],
      [substring |-> BARNESANDNOBLE_COM, storeType |-> "barnesnoble"],
      [substring |-> BOOKS_GOOGLE_COM, storeType |-> "google"],
      [substring |-> GOODREADS_COM, storeType |-> "goodreads"],
      [substring |-> BOOKSHOP_ORG, storeType |-> "bookshop"]>>

\* the URL up to (not including) the first "?" or "#"
HostAndPath(url) ==
    LET cut == {i \in 1..Len(url) : url[i] \in {"?", "#"}}
    IN IF cut = {} THEN url
       ELSE SubSeq(url, 1, (CHOOSE i \in cut : \A j \in cut : i <= j) - 1)

TableMatches(text) == {k \in 1..Len(DomainTable) : Includes(text, DomainTable[k].substring)}

C7_StoreFromHostPath ==
    \A i \in 1..Len(bookLinks) :
        LET m == TableMatches(HostAndPath(bookLinks[i].url))
        IN /\ m # {}
           /\ bookLinks[i].storeType = DomainTable[CHOOSE k \in m : \A j \in m : k <= j].storeType
           /\ bookLinks[i].storeType # "unknown"

(***************************************************************************)
(* C8: every link the classifier emits has a URL that begins with          *)
(* "http://" or "https://".                                                *)
(***************************************************************************)
HTTP_SCHEME == <<"h", "t", "t", "p", ":", "/", "/">>
HTTPS_SCHEME == <<"h", "t", "t", "p", "s", ":", "/", "/">>

C8_HttpScheme ==
    \A i \in 1..Len(bookLinks) :
        StartsWith(bookLinks[i].url, HTTP_SCHEME) \/ StartsWith(bookLinks[i].url, HTTPS_SCHEME)

(***************************************************************************)
(* C9: link classification is a stable filter and idempotent: the emitted  *)
(* links are anchors of the page in their document order, each anchor      *)
(* emitted at most once; the list is what classifying the page's anchors   *)
(* gives; classifying the emitted list again returns it unchanged.         *)
(***************************************************************************)
IsStableSelection(links, elements) ==
    \E f \in [1..Len(links) -> 1..Len(elements)] :
        /\ \A i, j \in 1..Len(links) : i < j => f[i] < f[j]
        /\ \A i \in 1..Len(links) :
              /\ HasParam(elements[f[i]], "href")
              /\ links[i].url = elements[f[i]].href
              /\ links[i].title = elements[f[i]].textContent

AsRawLinks(links) == [i \in 1..Len(links) |-> [href |-> links[i].url, textContent |-> links[i].title]]

C9_StableIdempotent ==
    SearchEvaluated =>
        /\ IsStableSelection(bookLinks, page.anchors)
        /\ ClassifyLinks(page.anchors) = bookLinks
        /\ ClassifyLinks(AsRawLinks(bookLinks)) = bookLinks

\* two different links emitted from a page of two anchors
C9_Witness ==
    /\ SearchEvaluated
    /\ Len(bookLinks) = 2
    /\ bookLinks[1].url # bookLinks[2].url
    /\ bookLinks[1].storeType # bookLinks[2].storeType

(***************************************************************************)
(* C1: in both scrapers every browser session launched for a request is    *)
(* closed before the request's result or error is returned, on every exit  *)
(* path. As stated (no request ends with its session open):               *)
(***************************************************************************)
Returned == pc \in {"sc_returned", "fb_returned", "done"}

ExtractedFields == {"asin", "title", "author", "yearPublished", "pageLength", "description"}

HasText(text) == \E i \in 1..Len(text) : ~IsSpace(text[i])

\* the record completed by the try block, returned by the function or sent
ReturnedRecords ==
    IF request.worker # "metadata" THEN {}
    ELSE (IF pending.kind = "return" THEN {pending.value} ELSE {})
         \cup (IF outcome.kind = "return" THEN {outcome.value} ELSE {})
         \cup (IF "productData" \in DOMAIN response THEN {response.productData} ELSE {})

UrlHasSegment(url) == Includes(url, DP) \/ Includes(url, GP_PRODUCT)

\* "no selector or pattern yields a value", field by field
NothingYields(field) ==
    CASE field = "asin" ->
            IF UrlHasSegment(request.url)
            THEN \A seg \in {DP, GP_PRODUCT} :
                    Includes(request.url, seg) =>
                        LET after == SubSeq(request.url, IndexOf(request.url, seg) + Len(seg),
                                            Len(request.url))
                        IN after = <<>> \/ after[1] = "/"
            ELSE \A i \in 1..Len(page.asinElements) :
                    ~page.asinElements[i].isInput \/ page.asinElements[i].value = <<>>
      [] field = "title" ->
            \A i \in 1..Len(page.titleElements) : ~HasText(page.titleElements[i])
      [] field = "author" ->
            \A i \in 1..Len(page.authorElements) : ~HasText(page.authorElements[i].textContent)
      [] field = "yearPublished" ->
            \A i \in 1..Len(page.detailElements) :
                \/ ~(Includes(page.detailElements[i], PUBLICATION_DATE)
                     \/ Includes(page.detailElements[i], PUBLISHER))
                \/ \A k \in 1..(Len(page.detailElements[i]) - 3) :
                      \E d \in 0..3 : ~IsDigit(page.detailElements[i][k + d])
      [] field = "pageLength" ->
            \A i \in 1..Len(page.detailElements) : ~Includes(page.detailElements[i], PAGES)
      [] field = "description" ->
            /\ \A i \in 1..Len(page.expanderElements) : ~HasText(page.expanderElements[i])
            /\ \A i \in 1..Len(page.descElements) : ~HasText(page.descElements[i])

C2_FieldsNeverEmpty ==
    \A record \in ReturnedRecords :
        /\ ExtractedFields \subseteq DOMAIN record
        /\ \A field \in ExtractedFields :
              /\ record[field] # <<>>
              /\ NothingYields(field) => record[field] = NOT_FOUND

\* a page with a blank #productTitle, a Publisher entry without a year and a
\* blank description node, scraped from a URL without an identifier
C2_Witness ==
    /\ pc = "done"
    /\ "productData" \in DOMAIN response
    /\ request.url = UrlDpEmpty
    /\ page.titleElements = <<TextBlank>>
    /\ page.detailElements = <<DetailPublisherOnly>>
    /\ page.expanderElements = <<TextBlank>>
    /\ page.descElements = <<>>
    /\ \A field \in ExtractedFields \ {"author"} : response.productData[field] = NOT_FOUND
    /\ response.productData.author # NOT_FOUND

(***************************************************************************)
(* C3: when several product-detail entries of the page each yield a value  *)
(* for the same field, the value reported is the one from the earliest     *)
(* matching entry, not from a later one (priority, not overwrite).         *)
(***************************************************************************)
YieldsYear(text) ==
    (Includes(text, PUBLICATION_DATE) \/ Includes(text, PUBLISHER)) /\ MatchYear(Trim(text)) # <<>>

YieldsPages(text) == MatchPages(Trim(text)) # <<>>

\* the least position of the sequence that is in the set
Earliest(positions) == CHOOSE i \in positions : \A j \in positions : i <= j

C3_EarliestEntryWins ==
    \A record \in ReturnedRecords :
        LET years == {i \in 1..Len(page.detailElements) : YieldsYear(page.detailElements[i])}
            lengths == {i \in 1..Len(page.detailElements) : YieldsPages(page.detailElements[i])}
        IN /\ years # {} =>
                 record.yearPublished = MatchYear(Trim(page.detailElements[Earliest(years)]))
           /\ lengths # {} =>
                 record.pageLength = MatchPages(Trim(page.detailElements[Earliest(lengths)]))

(***************************************************************************)
(* C10: ASIN shortcut. When the source URL contains "/dp/" or              *)
(* "/gp/product/", the asin is exactly the text that follows that segment  *)
(* up to the next "/" and the in-page "#ASIN" lookup is not performed; the *)
(* lookup is performed only when the URL contains neither segment.         *)
(***************************************************************************)
\* the text of url that follows the first occurrence of segment, up to the
\* next "/" or the end of the url
TextAfter(url, segment) ==
    LET occurrences == {i \in 1..Len(url) :
                            /\ i + Len(segment) - 1 <= Len(url)
                            /\ \A k \in 1..Len(segment) : url[i + k - 1] = segment[k]}
        from == Earliest(occurrences) + Len(segment)
        slashes == {k \in from..Len(url) : url[k] = "/"}
    IN IF slashes = {} THEN SubSeq(url, from, Len(url))
       ELSE SubSeq(url, from, Earliest(slashes) - 1)

\* the segments of the URL that the shortcut can have used
SegmentsOf(url) == {seg \in {DP, GP_PRODUCT} : Includes(url, seg)}

\* C10 as stated, of the asin of the record returned
C10_AsinIsUrlText ==
    /\ \A record \in ReturnedRecords :
          SegmentsOf(request.url) # {} =>
              \E seg \in SegmentsOf(request.url) : record.asin = TextAfter(request.url, seg)
    /\ (request.worker = "metadata" /\ InTrace("evaluate #ASIN")) => SegmentsOf(request.url) = {}
    /\ (ReturnedRecords # {} /\ SegmentsOf(request.url) = {}) => InTrace("evaluate #ASIN")

\* C10 as amended: the identifier extracted is the text that follows the
\* segment ("/dp/" when both occur) up to the next "/", and the record reports
\* it as its asin, or "Not found" when that text is empty; the in-page lookup
\* is performed if and only if the URL contains neither segment.
AsinExtracted ==
    /\ request.worker = "metadata"
    /\ pc \in {"sc_title", "sc_author", "sc_details", "sc_description"}

ShortcutText(url) ==
    IF Includes(url, DP) THEN TextAfter(url, DP) ELSE TextAfter(url, GP_PRODUCT)

C10_AsinShortcut ==
    /\ (AsinExtracted /\ SegmentsOf(request.url) # {}) => asin = ShortcutText(request.url)
    /\ \A record \in ReturnedRecords :
          SegmentsOf(request.url) # {} =>
              record.asin = (IF ShortcutText(request.url) = <<>> THEN NOT_FOUND
                             ELSE ShortcutText(request.url))
    /\ (request.worker = "metadata" /\ InTrace("evaluate #ASIN")) => SegmentsOf(request.url) = {}
    /\ ((AsinExtracted \/ ReturnedRecords # {}) /\ SegmentsOf(request.url) = {}) =>
           InTrace("evaluate #ASIN")

\* the record for .../dp/B08/ref carries B08, with no lookup of #ASIN
C10_Witness ==
    /\ pc = "done"
    /\ request.worker = "metadata"
    /\ "productData" \in DOMAIN response
    /\ request.url = UrlDp
    /\ response.productData.asin = <<"B", "0", "8">>
    /\ ~InTrace("evaluate #ASIN")

(***************************************************************************)
(* C11: once the product page has been acquired, the scrape request never  *)
(* fails because a field is missing. When every page query has been        *)
(* answered, whatever the page holds, the /scrape response has status 200  *)
(* and a record with all of asin, title, author, yearPublished,            *)
(* pageLength, description and url; the only failure left after the        *)
(* acquisition is a page query that is itself rejected.                    *)
(***************************************************************************)
RecordFields == ExtractedFields \cup {"url"}

\* launch, newPage, setUserAgent, goto and waitForSelector('body') succeeded
PageAcquired == request.worker = "metadata" /\ InTrace("waitForSelector")

C11_MissingFieldIsNoError ==
    (PageAcquired /\ pc = "done") =>
        /\ \/ /\ response.status = 200
              /\ "productData" \in DOMAIN response
              /\ DOMAIN response.productData = RecordFields
              /\ response.productData.url = request.url
           \/ /\ response.status = 500
              /\ response.message = "evaluate failed"
              /\ ~InTrace("evaluate description")
        /\ InTrace("evaluate description") => response.status = 200

\* a page on which no field can be resolved, answered with a full record
C11_Witness ==
    /\ PageAcquired
    /\ pc = "done"
    /\ response.status = 200
    /\ request.url = UrlNoSegment
    /\ page.asinElements = <<>>
    /\ page.titleElements = <<>>
    /\ page.authorElements = <<>>
    /\ page.detailElements = <<>>
    /\ page.expanderElements = <<>>
    /\ page.descElements = <<>>
    /\ \A field \in ExtractedFields : response.productData[field] = NOT_FOUND

(***************************************************************************)
(* C12: no retries. Handling one /scrape or /search request launches the   *)
(* browser at most once and navigates at most once; when the launch, the   *)
(* navigation or the wait fails, the failure is surfaced to the caller at  *)
(* once as a status-500 error response and no second attempt is made.      *)
(***************************************************************************)
Count(event) == Cardinality({i \in DOMAIN trace : trace[i] = event})

\* the calls made on the browser and the page, the closing of the session aside
BeforeClose == SelectSeq(trace, LAMBDA e : e \notin {"close", "close rejected"})

\* the acquisition step that threw, "" when none did
FailedStep ==
    IF pending.kind = "throw" THEN pending.message
    ELSE IF outcome.kind = "throw" /\ outcome.message = "Failed to search for book: launch failed"
    THEN "launch failed"
    ELSE ""

\* the calls that succeeded before each acquisition step
CallsBefore(failure) ==
    CASE failure = "launch failed" -> <<>>
      [] failure = "newPage failed" -> <<"launch">>
      [] failure = "setUserAgent failed" -> <<"launch", "newPage">>
      [] failure = "goto failed" -> <<"launch", "newPage", "setUserAgent">>
      [] failure \in {"waitForTimeout failed", "waitForSelector failed"} ->
            <<"launch", "newPage", "setUserAgent", "goto">>

AcquisitionFailures ==
    {"launch failed", "newPage failed", "setUserAgent failed", "goto failed",
     "waitForTimeout failed", "waitForSelector failed"}

\* at most one launch and one navigation; a failed acquisition step ends the
\* request there with status 500
FailsFast ==
    /\ Count("launch") <= 1
    /\ Count("goto") <= 1
    /\ FailedStep \in AcquisitionFailures =>
          /\ pc \in {"sc_finally", "sc_returned", "fb_finally", "fb_returned", "done"}
          /\ BeforeClose = CallsBefore(FailedStep)
          /\ pc = "done" => (response.status = 500 /\ "message" \in DOMAIN response)

\* C12 as stated: every failed wait ends the request with status 500
C12_NoRetriesFailFast ==
    /\ FailsFast
    /\ InTrace("waitForSelector rejected") =>
          /\ pc \in {"fb_finally", "fb_returned", "done"}
          /\ ~InTrace("evaluate")
          /\ pc = "done" => response.status = 500

\* C12 as amended: as stated, except that the book finder ignores a failed
\* wait for '#search' and goes on to the extraction (the scraper never does)
C12_NoRetries ==
    /\ FailsFast
    /\ InTrace("waitForSelector rejected") =>
          /\ request.worker = "finder"
          /\ pc \in {"fb_evaluate", "fb_finally", "fb_returned", "done"}
          /\ FailedStep \notin AcquisitionFailures

\* a navigation that failed, answered with 500 after the one launch
C12_Witness ==
    /\ pc = "done"
    /\ request.worker = "metadata"
    /\ FailedStep = "goto failed"
    /\ trace = <<"launch", "newPage", "setUserAgent", "close">>
    /\ response.status = 500
    /\ response.message = "goto failed"

(***************************************************************************)
(* C13: in both scrapers the extractor is invoked only after every         *)
(* page-acquisition step (browser launch, page creation, navigation, wait  *)
(* for the content selector) has succeeded; when an acquisition step fails *)
(* or times out, the request fails before any field or link extraction is  *)
(* run.                                                                    *)
(***************************************************************************)
ExtractionEvents ==
    {"evaluate", "evaluate #ASIN", "evaluate #productTitle", "evaluate author",
     "evaluate details", "evaluate description"}

ExtractionPcs == {"fb_evaluate", "sc_asin", "sc_title", "sc_author", "sc_details", "sc_description"}

\* every event of the set is in the trace before position i
AllBefore(events, i) == \A e \in events : \E j \in 1..(i - 1) : trace[j] = e

\* no query has run and no field or link has been extracted
NothingExtracted ==
    /\ \A i \in DOMAIN trace : trace[i] \notin ExtractionEvents
    /\ bookLinks = <<>>
    /\ asin = <<>> /\ title = <<>> /\ author = <<>>
    /\ productDetails = <<>> /\ description = <<>>
    /\ pending.kind # "return"

\* the extraction runs, or is about to run, only after the steps have succeeded
ExtractsOnlyAfter(steps) ==
    /\ \A i \in DOMAIN trace : trace[i] \in ExtractionEvents => AllBefore(steps, i)
    /\ pc \in ExtractionPcs => AllBefore(steps, Len(trace) + 1)

\* C13 as stated: the wait for the content selector has succeeded too
C13_ExtractionAfterAcquisition ==
    /\ ExtractsOnlyAfter({"launch", "newPage", "goto", "waitForSelector"})
    /\ (FailedStep \in AcquisitionFailures \/ InTrace("waitForSelector rejected")) =>
          NothingExtracted

\* C13 as amended: in the book finder the wait for '#search' need not have
\* succeeded (its fixed wait must have); in the product scraper every step must
C13_ExtractionAfterSteps ==
    /\ request.worker = "finder" =>
          ExtractsOnlyAfter({"launch", "newPage", "setUserAgent", "goto", "waitForTimeout"})
    /\ request.worker = "metadata" =>
          ExtractsOnlyAfter({"launch", "newPage", "setUserAgent", "goto", "waitForSelector"})
    /\ FailedStep \in AcquisitionFailures => NothingExtracted
    /\ request.worker = "none" => NothingExtracted

\* the scraper's wait for 'body' timed out: 500, and nothing was extracted
C13_Witness ==
    /\ pc = "done"
    /\ request.worker = "metadata"
    /\ FailedStep = "waitForSelector failed"
    /\ NothingExtracted
    /\ response.status = 500
    /\ response.message = "waitForSelector failed"

(***************************************************************************)
(* C14: within one request the order of events is always: session          *)
(* launched, user agent set, navigation, extraction, session closed,       *)
(* result returned. No page query is issued before the user agent is set   *)
(* and the navigation has completed, nor after the session has been        *)
(* closed, and the session queried is the one this request launched: it is *)
(* open from the request's launch to the request's close and is launched   *)
(* once.                                                                   *)
(***************************************************************************)
\* the place of an event in the order launch, page, user agent, navigation,
\* waits, extraction, close
Rank(event) ==
    CASE event = "launch" -> 1
      [] event = "newPage" -> 2
      [] event = "setUserAgent" -> 3
      [] event = "goto" -> 4
      [] event \in {"waitForTimeout", "waitForSelector", "waitForSelector rejected"} -> 5
      [] event \in ExtractionEvents -> 6
      [] event = "close" -> 7
      [] event = "close rejected" -> 8

\* the events that happen at most once in a request
OnceEvents == {"launch", "newPage", "setUserAgent", "goto", "close", "close rejected"}

ResultReturned == outcome.kind # "none" \/ response.status # 0

StoreAskedFor(req) == IF HasParam(req, "store") /\ req.store # "" THEN req.store ELSE "amazon"

\* the answer to a /search request as a function of the request, the document
\* acquired for it and the calls made for it alone
AnswerFor(req, doc, calls) ==
    LET evaluated == \E i \in DOMAIN calls : calls[i] = "evaluate"
        closed == calls # <<>> /\ calls[Len(calls)] = "close"
    IN IF ~HasParam(req, "query") \/ req.query = "" THEN [status |-> 400]
       ELSE IF evaluated /\ closed /\ ClassifyLinks(doc.anchors) # <<>>
       THEN [status |-> 200, query |-> req.query,
             bookLink |-> PolicyChoice(ClassifyLinks(doc.anchors), StoreAskedFor(req))]
       ELSE [status |-> 500]

SearchAnswered ==
    /\ pc = "done"
    /\ request.worker = "finder"
    /\ request.method = "GET"
    /\ request.pathname = "/search"

C15_ResponseIndependent ==
    SearchAnswered =>
        LET answer == AnswerFor(request, page, trace)
        IN /\ response.status = answer.status
           /\ answer.status = 200 =>
                 (response.query = answer.query /\ response.bookLink = answer.bookLink)
           /\ answer.status # 200 => ~HasBookLink(response)

\* another request for the same query found another store's link before this
\* one was answered; this one is answered with the link of its own page
C15_Witness ==
    /\ SearchAnswered
    /\ settled = 1
    /\ response.status = 200
    /\ response.bookLink.url = HrefAmazon
    /\ Len(StateList(state, "recentSearches")) = 2
    /\ state.recentSearches[1].bookUrl = HrefAmazon
    /\ state.recentSearches[2].bookUrl = OtherLink.url
    /\ state.recentSearches[2].query = request.query

(***************************************************************************)
(* C16: the description returned is the first non-empty value in rule      *)
(* order: when the node of the first rule                                  *)
(* ('#bookDescription_feature_div .a-expander-content') exists but its     *)
(* trimmed text is empty, the later description selectors are still tried, *)
(* and "Not found" is returned only when no rule yields a non-empty text.  *)
(***************************************************************************)
\* the trimmed text of the first element a rule finds, <<>> when it finds none
RuleValue(elements) == IF elements = <<>> THEN <<>> ELSE Trim(elements[1])

FirstNonEmptyDescription(doc) ==
    IF RuleValue(doc.expanderElements) # <<>> THEN RuleValue(doc.expanderElements)
    ELSE IF RuleValue(doc.descElements) # <<>> THEN RuleValue(doc.descElements)
    ELSE NOT_FOUND

C16_DescriptionFirstNonEmpty ==
    \A record \in ReturnedRecords : record.description = FirstNonEmptyDescription(page)

(***************************************************************************)
(* C17: the author selectors are tried in declaration order                *)
(* ('.contributorNameID', '.author a', '#bylineInfo .a-link-normal'): when *)
(* nodes matching two of them are on the page, the author returned is the  *)
(* text of the node matching the earlier-declared selector, wherever the   *)
(* two nodes sit in the document.                                          *)
(***************************************************************************)
\* the first element, in document order, that matches the earliest-declared
\* selector matched by any element
ByDeclarationOrder(elements) ==
    LET best == CHOOSE k \in {elements[i].selector : i \in DOMAIN elements} :
                    \A i \in DOMAIN elements : k <= elements[i].selector
    IN elements[Earliest({i \in DOMAIN elements : elements[i].selector = best})]

C17_AuthorByDeclarationOrder ==
    \A record \in ReturnedRecords :
        page.authorElements # <<>> =>
            record.author = Trim(ByDeclarationOrder(page.authorElements).textContent)

(***************************************************************************)
(* C18: findBookUrl returns an Amazon URL. For every search in which the   *)
(* front end asks the book finder with store=amazon and the finder answers *)
(* with a bookLink, the URL that findBookUrl returns is a link classified  *)
(* as "amazon", which the metadata worker's amazon.com check accepts.      *)
(***************************************************************************)
\* the request findBookUrl sends has been answered
AmazonSearchAnswered ==
    /\ SearchAnswered
    /\ HasParam(request, "query") /\ request.query # ""
    /\ HasParam(request, "store") /\ request.store = "amazon"

C18_FindBookUrlIsAmazon ==
    (AmazonSearchAnswered /\ HasBookLink(response)) =>
        /\ findBookUrl(response) = Return(response.bookLink.url)
        /\ response.bookLink.storeType = "amazon"
        /\ Includes(findBookUrl(response).value, AMAZON_COM)

(***************************************************************************)
(* C19: the metadata worker navigates its browser only to URLs of the      *)
(* amazon.com domain. A /scrape request whose url parameter is on any      *)
(* other host (also one that merely contains the text "amazon.com" in its  *)
(* path or query) is answered with status 400 "URL must be from            *)
(* amazon.com domain", and no browser is launched for it.                  *)
(***************************************************************************)
SCHEME_END == <<":", "/", "/">>

\* the host of an absolute URL: what lies between "://" and the next "/", "?"
\* or "#"
HostOf(url) ==
    LET from == IndexOf(url, SCHEME_END) + Len(SCHEME_END)
        stops == {i \in from..Len(url) : url[i] \in {"/", "?", "#"}}
    IN IF IndexOf(url, SCHEME_END) = 0 THEN <<>>
       ELSE IF stops = {} THEN SubSeq(url, from, Len(url))
       ELSE SubSeq(url, from, Earliest(stops) - 1)

\* amazon.com itself or a subdomain of it
OnAmazonDomain(url) ==
    LET host == HostOf(url)
    IN \/ host = AMAZON_COM
       \/ /\ Len(host) > Len(AMAZON_COM)
          /\ SubSeq(host, Len(host) - Len(AMAZON_COM), Len(host)) = <<".">> \o AMAZON_COM

ScrapeAsked ==
    /\ request.worker = "metadata"
    /\ request.method = "GET"
    /\ request.pathname = "/scrape"
    /\ request.browserBinding
    /\ HasParam(request, "url") /\ request.url # <<>>

C19_OnlyAmazonHosts ==
    /\ (request.worker = "metadata" /\ InTrace("launch")) => OnAmazonDomain(request.url)
    /\ (ScrapeAsked /\ ~OnAmazonDomain(request.url)) =>
          /\ browser = "none"
          /\ pc = "done"
          /\ response.status = 400
          /\ response.error = "URL must be from amazon.com domain"

(***************************************************************************)
(* C20: after any sequence of /search requests handled by the BookFinder   *)
(* agent, its state holds at most 10 recentSearches entries and at most 20 *)
(* errors entries.                                                         *)
(***************************************************************************)
C20_HistoryCapped ==
    /\ Len(StateList(state, "recentSearches")) <= 10
    /\ Len(StateList(state, "errors")) <= 20

\* a search answered by an agent whose list was full: the new entry is first,
\* the oldest one is gone, and the list holds 10 entries
C20_Witness ==
    /\ SearchAnswered
    /\ response.status = 200
    /\ Len(StateList(state, "recentSearches")) = 10
    /\ state.recentSearches[1].query = request.query
    /\ state.recentSearches[1].bookUrl = response.bookLink.url
    /\ \A i \in 2..10 : state.recentSearches[i] = OldSearch
    /\ Len(StateList(state, "errors")) = 20

(***************************************************************************)
(* C21: when several /search requests are handled by the one BookFinder    *)
(* agent with their browser waits interleaved in any order, each request   *)
(* that succeeds prepends exactly one recentSearches entry carrying its    *)
(* own query, URL and storeType, and each request that fails prepends      *)
(* exactly one errors entry carrying its own query; no entry is lost,      *)
(* duplicated or overwritten by the update of another request, the other   *)
(* log is left unchanged, and both logs stay ordered newest first.         *)
(***************************************************************************)
\* new is old with exactly one entry put in front
Prepends(old, new) == Len(new) = Len(old) + 1 /\ Tail(new) = old

\* the step puts one entry in front of the log named and leaves the other log
LogsOne(log, other) ==
    /\ Prepends(StateList(state, log), StateList(state', log))
    /\ StateList(state', other) = StateList(state, other)

C21_OneEntryPerRequest ==
    [][/\ state' # state =>
            (LogsOne("recentSearches", "errors") \/ LogsOne("errors", "recentSearches"))
       /\ (pc = "fb_returned" /\ pc' = "done" /\ outcome.kind = "return") =>
            /\ LogsOne("recentSearches", "errors")
            /\ Head(StateList(state', "recentSearches")) =
                  [query |-> request.query, bookUrl |-> outcome.value.url,
                   storeType |-> outcome.value.storeType]
            /\ response'.status = 200
       /\ (pc = "fb_returned" /\ pc' = "done" /\ outcome.kind = "throw") =>
            /\ LogsOne("errors", "recentSearches")
            /\ Head(StateList(state', "errors")) =
                  [query |-> request.query, error |-> outcome.message]
            /\ response'.status = 500
       /\ settled' # settled =>
            /\ state' # state
            /\ UNCHANGED <<request, pc, response>>
       /\ ~(pc = "fb_returned" /\ pc' = "done") /\ settled' = settled => state' = state
      ]_vars

\* this request succeeded while another one failed: each log holds the one
\* entry of its request
C21_Witness ==
    /\ SearchAnswered
    /\ settled = 1
    /\ response.status = 200
    /\ StateList(state, "recentSearches") =
          <<[query |-> request.query, bookUrl |-> response.bookLink.url,
             storeType |-> response.bookLink.storeType]>>
    /\ StateList(state, "errors") = <<[query |-> "dune", error |-> OtherError]>>

(***************************************************************************)
(* C22: a failure while closing the browser never changes the outcome      *)
(* already determined for the request. In both scrapers, when the          *)
(* extraction has succeeded and browser.close() then fails, the caller     *)
(* still receives the extracted record or bookLink, and when the request   *)
(* had already failed the caller still receives the original error.        *)
(***************************************************************************)
\* what the function completes with when closing the browser changes nothing
OutcomeDetermined ==
    IF request.worker = "finder" THEN WrapSearchError(pending) ELSE pending

C22_CloseFailureKeepsOutcome ==
    (InTrace("close rejected") /\ pc \in {"sc_returned", "fb_returned", "done"}) =>
        /\ outcome = OutcomeDetermined
        /\ (pc = "done" /\ pending.kind = "return") =>
              /\ response.status = 200
              /\ request.worker = "finder" => response.bookLink = pending.value
              /\ request.worker = "metadata" => response.productData = pending.value
        /\ (pc = "done" /\ pending.kind = "throw") =>
              /\ response.status = 500
              /\ response.message = OutcomeDetermined.message

(***************************************************************************)
(* C23: a request answered with status 400 has caused no external effect.  *)
(* /scrape without a url parameter, /search without a query parameter and  *)
(* /generate-emojis without a description are answered with 400, and a     *)
(* request answered with 400 has launched no browser, made no call on a    *)
(* browser, a page or the AI model, and left the agent state as it was.    *)
(***************************************************************************)
Answered == pc = "done"

LacksParam(name) == ~HasParam(request, name) \/ request[name] = ""

RejectedForMissingParam ==
    \/ /\ request.worker = "metadata" /\ request.method = "GET"
       /\ request.pathname = "/scrape" /\ request.browserBinding
       /\ LacksParam("url")
    \/ /\ request.worker = "finder" /\ request.method = "GET"
       /\ request.pathname = "/search"
       /\ LacksParam("query")
    \/ /\ request.worker = "emoji" /\ request.method \in {"GET", "POST"}
       /\ request.pathname = "/generate-emojis" /\ request.bodyValid
       /\ LacksParam("description")

C23_RejectedHasNoEffect ==
    /\ (Answered /\ RejectedForMissingParam) => response.status = 400
    /\ (Answered /\ response.status = 400) =>
            /\ browser = "none"
            /\ trace = <<>>
            /\ state = <<>>

C23_Witness ==
    /\ Answered
    /\ request.worker = "emoji" /\ request.method = "POST"
    /\ RejectedForMissingParam
    /\ response.status = 400
    /\ trace = <<>>

(***************************************************************************)
(* C24: when the search for the book URL or the metadata fetch of a submit *)
(* fails, the submit ends at once with the markdown content set to the     *)
(* basic template of the submitted form data alone (every metadata row is  *)
(* its placeholder), and with the error message "Failed to fetch book      *)
(* metadata: ... Generating basic template instead." set for display.      *)
(***************************************************************************)
LastEvent == IF trace = <<>> THEN "" ELSE trace[Len(trace)]

\* this step is the failure of the request a submit was waiting for
RequestFails == fpc \in {"find", "fetch"} /\ trace' = Append(trace, "failed")

BasicTemplates(form) ==
    {generateMarkdown(ModifiedFormData(form), random) : random \in RandomBookEmojis}

C24_FailureFallsBack ==
    [][RequestFails =>
         /\ fpc' = "idle"
         /\ markdownContent' # <<>>
         /\ markdownContent'[1] \in BasicTemplates(submitted)
         /\ markdownContent'[1].title = submitted.title
         /\ markdownContent'[1].yearPublished = ToBeFilled
         /\ markdownContent'[1].pages = ToBeFilled
         /\ markdownContent'[1].asin = ToBeFilled
         /\ markdownContent'[1].amazon = <<>>
         /\ error' # <<>>
         /\ error'[1][1] = "Failed to fetch book metadata: "
         /\ error'[1][3] = ". Generating basic template instead."
      ]_vars

\* the metadata fetch of a submit has failed, after its search succeeded
C24_Witness ==
    /\ fpc = "idle"
    /\ LastEvent = "failed"
    /\ InTrace("fetchBookMetadata")
    /\ markdownContent # <<>>
    /\ error # <<>>

(***************************************************************************)
(* C25: isLoading is true from the start of a submit until that submit     *)
(* completes; once a submit has completed (by rendering with metadata or   *)
(* by falling back to the basic template) isLoading is false and           *)
(* loadingMessage is the empty string. The form is loading only while a    *)
(* request of the submit is awaited; however that request settles, the     *)
(* submit advances to its next await or completes, and never goes back.    *)
(***************************************************************************)
SubmitInProgress == fpc # "idle"

LoadingIffSubmitting ==
    /\ SubmitInProgress => (isLoading /\ loadingMessage # "")
    /\ ~SubmitInProgress => (~isLoading /\ loadingMessage = "")

Stage(position) ==
    CASE position = "idle" -> 0
      [] position = "find" -> 1
      [] position = "fetch" -> 2
      [] position \in {"emojis", "render"} -> 3

\* a submit never goes back to an earlier await: it advances or completes
SubmitAdvances == fpc' # fpc => (fpc' = "idle" \/ Stage(fpc') > Stage(fpc))

C25_LoadingWhileSubmitting ==
    /\ []LoadingIffSubmitting
    /\ [][SubmitAdvances]_vars

\* a submit that fell back has completed
C25_Witness ==
    /\ ~SubmitInProgress
    /\ LastEvent = "failed"
    /\ ~isLoading
    /\ loadingMessage = ""

(***************************************************************************)
(* C26: a submit searches for the book and fetches its metadata only if no *)
(* metadata has been fetched yet or the search input (the title field) has *)
(* changed since the last successful fetch; otherwise it makes no request  *)
(* for metadata and generates the markdown from the cached fetchedMetadata.*)
(***************************************************************************)
LastIndex(event) ==
    LET at == {i \in DOMAIN trace : trace[i] = event}
    IN IF at = {} THEN 0 ELSE CHOOSE i \in at : \A j \in at : j <= i

\* no successful fetch so far, or a title change after the last one
FetchDue ==
    \/ ~InTrace("fetched")
    \/ \E j \in DOMAIN trace : j > LastIndex("fetched") /\ trace[j] = "change title"

SubmitStarts == fpc = "idle" /\ fpc' # "idle"

C26_FetchOnlyWhenDue ==
    [][/\ SubmitStarts =>
            /\ fpc' = "find" => FetchDue
            /\ ~FetchDue =>
                /\ fpc' \in {"emojis", "render"}
                /\ fetchedMetadata # <<>>
                /\ metadata' = fetchedMetadata
                /\ \A i \in DOMAIN trace' :
                      i > Len(trace) => trace'[i] \notin {"findBookUrl", "fetchBookMetadata"}
       /\ (fpc \in {"emojis", "render"} /\ fpc' = "idle") =>
            /\ metadata # <<>>
            /\ \E bookEmojis \in {<<>>} \cup {e.emojis : e \in {a \in EmojiAnswers : a.status = 200}} :
               \E random \in RandomBookEmojis :
                  markdownContent'[1] = generateMarkdownWithMetadata(
                      ModifiedFormData(submitted), metadata, bookEmojis, random)
       /\ (trace' # trace /\ trace'[Len(trace')] \in {"findBookUrl", "fetchBookMetadata"}) =>
            (fpc \in {"idle", "find"} /\ fpc' \in {"find", "fetch"})
      ]_vars

\* a second submit for an unchanged title is generating from the cache
C26_Witness ==
    /\ Occurrences("submit") = 2
    /\ LastIndex("submit") > LastIndex("fetched")
    /\ LastIndex("fetched") > LastIndex("change title")
    /\ fpc \in {"emojis", "render"}
    /\ metadata = fetchedMetadata
    /\ metadata # <<>>

(***************************************************************************)
(* C27: whenever metadataFetched is true, fetchedMetadata is non-null and  *)
(* is metadata fetched for the title currently in the form, also when the  *)
(* title is edited while the fetch for the previous title is in flight.    *)
(***************************************************************************)
C27_CacheMatchesTitle ==
    metadataFetched =>
        /\ fetchedMetadata # <<>>
        /\ fetchedMetadata[1] \in MetadataFor(formData.title)

(***************************************************************************)
(* C28: the sentinel "Not found" is never rendered into the markdown. In   *)
(* no markdown content is the title, author, year, pages, ASIN or summary  *)
(* row "Not found"; in the markdown generated with a metadata record, each *)
(* of yearPublished, pageLength, asin and description that is "Not found"  *)
(* is rendered as its placeholder, and there is an Amazon link row only    *)
(* when the asin is found.                                                 *)
(***************************************************************************)
TextRows == {"title", "author", "yearPublished", "pages", "asin", "summary"}

\* the last submit rendered markdownContent from the record in metadata
RenderedWithMetadata ==
    /\ fpc = "idle"
    /\ markdownContent # <<>>
    /\ error = <<>>
    /\ metadata # <<>>

Placeholder(row, field) ==
    metadata[1][field] = NotFound => markdownContent[1][row] \in {ToBeFilled, "[Publisher summary to be filled]"}

C28_SentinelNotRendered ==
    /\ markdownContent # <<>> => \A row \in TextRows : markdownContent[1][row] # NotFound
    /\ RenderedWithMetadata =>
        /\ Placeholder("yearPublished", "yearPublished")
        /\ Placeholder("pages", "pageLength")
        /\ Placeholder("asin", "asin")
        /\ Placeholder("summary", "description")
        /\ metadata[1].yearPublished = NotFound => markdownContent[1].yearPublished = ToBeFilled
        /\ metadata[1].description = NotFound =>
              markdownContent[1].summary = "[Publisher summary to be filled]"
        /\ (markdownContent[1].amazon = <<>>) <=> (metadata[1].asin = NotFound)

\* markdown rendered from a record whose every field is the sentinel
C28_Witness ==
    /\ RenderedWithMetadata
    /\ \A field \in MetadataFields : metadata[1][field] = NotFound
    /\ markdownContent[1].yearPublished = ToBeFilled
    /\ markdownContent[1].amazon = <<>>

=============================================================================
